---- MODULE Spec2Model ----
(***************************************************************************)
(* Model of the Multi-Prompt Agent: the configuration validator            *)
(* (schema_validation.py), the session start-up (run_agent.py) and the     *)
(* stage-flow engine of MultiPromptAgent (multi_prompt_agent.py).          *)
(*                                                                         *)
(* Python values are modelled as follows.                                  *)
(*   str processed character by character (prompts, greetings, conditions, *)
(*       user input, context keys and values): a sequence of one-character *)
(*       strings, <<"h","i">> for "hi";                                    *)
(*   str used only as an identifier (stage ids, role names): a string;     *)
(*   dict with a fixed schema (a stage, a transition, the settings): a     *)
(*       record, "k" in d being "k" \in DOMAIN d;                          *)
(*   dict iterated in insertion order (the context, context_updates, the   *)
(*       stage map): a sequence of [key, val] records with distinct keys;  *)
(*   a context value: [t |-> "str", v |-> <<chars>>] or                    *)
(*       [t |-> "int", v |-> n], str(value) being PyStr.                   *)
(* The "timestamp" field of a history entry (datetime.now()) is read by    *)
(* no operation and is left out of the entries.                            *)
(***************************************************************************)
EXTENDS Integers, Sequences, FiniteSets, TLC

(***************************************************************************)
(* Text: str.lower, str.split, the "in" test on strings, str.replace, str. *)
(***************************************************************************)

\* The upper-case letters and their lower-case forms.
LowerOf ==
  [c \in {"A","B","C","D","E","F","G","H","I","J","K","L","M",
          "N","O","P","Q","R","S","T","U","V","W","X","Y","Z"} |->
     CASE c = "A" -> "a" [] c = "B" -> "b" [] c = "C" -> "c" [] c = "D" -> "d"
       [] c = "E" -> "e" [] c = "F" -> "f" [] c = "G" -> "g" [] c = "H" -> "h"
       [] c = "I" -> "i" [] c = "J" -> "j" [] c = "K" -> "k" [] c = "L" -> "l"
       [] c = "M" -> "m" [] c = "N" -> "n" [] c = "O" -> "o" [] c = "P" -> "p"
       [] c = "Q" -> "q" [] c = "R" -> "r" [] c = "S" -> "s" [] c = "T" -> "t"
       [] c = "U" -> "u" [] c = "V" -> "v" [] c = "W" -> "w" [] c = "X" -> "x"
       [] c = "Y" -> "y" [] c = "Z" -> "z"]

\* str.lower(): every upper-case letter replaced by its lower-case form.
Lower(s) ==
  [i \in 1..Len(s) |-> IF s[i] \in DOMAIN LowerOf THEN LowerOf[s[i]] ELSE s[i]]

\* The characters str.split() treats as separators.
Whitespace == {" ", "\t", "\n"}

\* str.split() without argument: the maximal runs of non-whitespace
\* characters, in order; `cur` is the run being read, `out` the runs read.
RECURSIVE SplitFrom(_, _, _)
SplitFrom(s, cur, out) ==
  IF s = <<>> THEN (IF cur = <<>> THEN out ELSE Append(out, cur))
  ELSE IF Head(s) \in Whitespace
       THEN SplitFrom(Tail(s), <<>>, IF cur = <<>> THEN out ELSE Append(out, cur))
       ELSE SplitFrom(Tail(s), Append(cur, Head(s)), out)

Split(s) == SplitFrom(s, <<>>, <<>>)

\* `needle in hay` on strings: needle occurs as a contiguous substring.
RECURSIVE StrIn(_, _)
StrIn(needle, hay) ==
  IF Len(needle) > Len(hay) THEN FALSE
  ELSE IF SubSeq(hay, 1, Len(needle)) = needle THEN TRUE
  ELSE StrIn(needle, Tail(hay))

\* str.replace(old, new) for a non-empty old: the non-overlapping occurrences
\* of old, found from the left, each replaced by new.
RECURSIVE Replace(_, _, _)
Replace(text, old, new) ==
  IF Len(text) < Len(old) THEN text
  ELSE IF SubSeq(text, 1, Len(old)) = old
       THEN new \o Replace(SubSeq(text, Len(old) + 1, Len(text)), old, new)
       ELSE <<Head(text)>> \o Replace(Tail(text), old, new)

\* The decimal digits of a natural number.
RECURSIVE Digits(_)
Digits(n) ==
  LET d == <<"0","1","2","3","4","5","6","7","8","9">>[(n % 10) + 1]
  IN IF n < 10 THEN <<d>> ELSE Append(Digits(n \div 10), d)

\* str.replace(old, new, 1): only the first occurrence is replaced.
RECURSIVE ReplaceFirst(_, _, _)
ReplaceFirst(text, old, new) ==
  IF Len(text) < Len(old) THEN text
  ELSE IF SubSeq(text, 1, Len(old)) = old
       THEN new \o SubSeq(text, Len(old) + 1, Len(text))
       ELSE <<Head(text)>> \o ReplaceFirst(Tail(text), old, new)

\* str(value) of a context value.
PyStr(value) ==
  IF value.t = "int"
  THEN (IF value.v < 0 THEN <<"-">> \o Digits(0 - value.v) ELSE Digits(value.v))
  ELSE value.v

(***************************************************************************)
(* Insertion-ordered dicts: sequences of [key, val] with distinct keys.    *)
(***************************************************************************)

DictKeys(d) == {d[i].key : i \in 1..Len(d)}

DictHas(d, k) == k \in DictKeys(d)

\* d[k], for a key of d.
DictGet(d, k) == d[CHOOSE i \in 1..Len(d) : d[i].key = k].val

\* An assignment that leaves the value of an existing key alone
\* (dict.setdefault in place of d[k] = v).
DictSet_keeps_existing(d, k, v) ==
  IF DictHas(d, k) THEN d ELSE Append(d, [key |-> k, val |-> v])

\* d[k] = v: an existing key keeps its position, a new key goes last.
DictSet(d, k, v) ==
  IF DictHas(d, k)
  THEN [i \in 1..Len(d) |-> IF d[i].key = k THEN [key |-> k, val |-> v] ELSE d[i]]
  ELSE Append(d, [key |-> k, val |-> v])

\* An update that replaces the dict by the items given (d = dict(u) in place
\* of d.update(u)).
DictUpdate_replaces(d, u) == IF u = <<>> THEN d ELSE u

\* d.update(u): the items of u assigned in u's order.
RECURSIVE DictUpdate(_, _)
DictUpdate(d, u) ==
  IF u = <<>> THEN d ELSE DictUpdate(DictSet(d, Head(u).key, Head(u).val), Tail(u))

(***************************************************************************)
(* schema_validation.py: SchemaValidator.  A validation returns <<"ok">>   *)
(* or <<"ValueError", part, ...>>, the parts being the pieces of the       *)
(* message in order: the message is their concatenation, and a field name  *)
(* or stage id that the message contains is a part of its own.             *)
(***************************************************************************)

Ok == <<"ok">>

\* The first key of `keys` (a sequence) that is not a key of dict `d`, as a
\* one-element sequence; <<>> when d has them all.
RECURSIVE FirstMissing(_, _)
FirstMissing(keys, d) ==
  IF keys = <<>> THEN <<>>
  ELSE IF Head(keys) \notin DOMAIN d THEN <<Head(keys)>>
  ELSE FirstMissing(Tail(keys), d)

HasAll(keys, d) == \A i \in 1..Len(keys) : keys[i] \in DOMAIN d

validate_global_settings(cfg) ==
  LET global_settings == cfg.global_settings
      missing == FirstMissing(<<"llm_settings", "stt_settings", "tts_settings">>,
                              global_settings)
  IN IF missing # <<>>
     THEN <<"ValueError", "Missing ", missing[1], " in global_settings">>
     ELSE IF ~HasAll(<<"provider", "model", "temperature">>, global_settings.llm_settings)
     THEN <<"ValueError", "LLM settings missing required fields">>
     ELSE IF ~HasAll(<<"provider", "model", "language">>, global_settings.stt_settings)
     THEN <<"ValueError", "STT settings missing required fields">>
     ELSE IF ~HasAll(<<"provider", "model", "voice">>, global_settings.tts_settings)
     THEN <<"ValueError", "TTS settings missing required fields">>
     ELSE Ok

validate_agent_config(cfg) ==
  LET missing == FirstMissing(<<"name", "base_instructions">>, cfg.agent_config)
  IN IF missing # <<>>
     THEN <<"ValueError", "Missing ", missing[1], " in agent_config">>
     ELSE Ok

\* A loop over stage["next_stages"] that asks for the two fields of a
\* transition and never looks its target up.
RECURSIVE validate_next_stages_unresolved(_, _, _)
validate_next_stages_unresolved(stage_id, next_stages, all_stages) ==
  IF next_stages = <<>> THEN Ok
  ELSE LET next_stage == Head(next_stages)
       IN IF "stage_id" \notin DOMAIN next_stage
          THEN <<"ValueError", "next_stage in stage '", stage_id, "' missing ", "stage_id">>
          ELSE IF "condition" \notin DOMAIN next_stage
          THEN <<"ValueError", "next_stage in stage '", stage_id, "' missing ", "condition">>
          ELSE validate_next_stages_unresolved(stage_id, Tail(next_stages), all_stages)

\* The loop over stage["next_stages"] of _validate_stage.
RECURSIVE validate_next_stages(_, _, _)
validate_next_stages(stage_id, next_stages, all_stages) ==
  IF next_stages = <<>> THEN Ok
  ELSE LET next_stage == Head(next_stages)
       IN IF "stage_id" \notin DOMAIN next_stage
          THEN <<"ValueError", "next_stage in stage '", stage_id, "' missing ", "stage_id">>
          ELSE IF "condition" \notin DOMAIN next_stage
          THEN <<"ValueError", "next_stage in stage '", stage_id, "' missing ", "condition">>
          ELSE IF next_stage.stage_id # "END" /\ ~DictHas(all_stages, next_stage.stage_id)
          THEN <<"ValueError", "Stage '", stage_id, "' references non-existent stage: ",
                 next_stage.stage_id>>
          ELSE validate_next_stages(stage_id, Tail(next_stages), all_stages)

\* A stage check that does not ask for "completion_criteria".
validate_stage_lenient(stage_id, stage, all_stages) ==
  LET missing == FirstMissing(<<"id", "name", "prompt">>, stage)
  IN IF missing # <<>>
     THEN <<"ValueError", "Stage '", stage_id, "' missing required field: ", missing[1]>>
     ELSE IF "next_stages" \in DOMAIN stage
     THEN validate_next_stages(stage_id, stage.next_stages, all_stages)
     ELSE Ok

validate_stage(stage_id, stage, all_stages) ==
  LET missing == FirstMissing(<<"id", "name", "prompt", "completion_criteria">>, stage)
  IN IF missing # <<>>
     THEN <<"ValueError", "Stage '", stage_id, "' missing required field: ", missing[1]>>
     ELSE IF "next_stages" \in DOMAIN stage
     THEN validate_next_stages(stage_id, stage.next_stages, all_stages)
     ELSE Ok

\* The loop over stages.items() of _validate_stage_flow; `rest` is what is
\* left of the stage map.
RECURSIVE validate_stages(_, _)
validate_stages(rest, all_stages) ==
  IF rest = <<>> THEN Ok
  ELSE LET r == validate_stage(Head(rest).key, Head(rest).val, all_stages)
       IN IF r # Ok THEN r ELSE validate_stages(Tail(rest), all_stages)

validate_stage_flow(cfg) ==
  LET flow == cfg.flow
  IN IF "start_stage" \notin DOMAIN flow
     THEN <<"ValueError", "Missing ", "start_stage", " in flow">>
     ELSE IF "stages" \notin DOMAIN flow
     THEN <<"ValueError", "Missing ", "stages", " in flow">>
     ELSE IF ~DictHas(flow.stages, flow.start_stage)
     THEN <<"ValueError", "start_stage", " '", flow.start_stage, "' not found in stages">>
     ELSE validate_stages(flow.stages, flow.stages)

validate_config(cfg) ==
  LET missing == FirstMissing(<<"global_settings", "agent_config", "flow">>, cfg)
  IN IF missing # <<>>
     THEN <<"ValueError", "Missing required key in config: ", missing[1]>>
     ELSE IF validate_global_settings(cfg) # Ok THEN validate_global_settings(cfg)
     ELSE IF validate_agent_config(cfg) # Ok THEN validate_agent_config(cfg)
     ELSE validate_stage_flow(cfg)

\* run_agent.py, entrypoint: the validator, then the flow checks of its own.
entrypoint_checks(cfg) ==
  IF validate_config(cfg) # Ok THEN validate_config(cfg)
  ELSE IF "flow" \notin DOMAIN cfg
  THEN <<"ValueError", "Missing 'flow' section in configuration">>
  ELSE IF "start_stage" \notin DOMAIN cfg.flow \/ "stages" \notin DOMAIN cfg.flow
  THEN <<"ValueError", "Flow must contain both 'start_stage' and 'stages' definitions">>
  ELSE IF ~DictHas(cfg.flow.stages, cfg.flow.start_stage)
  THEN <<"ValueError", "Start stage '", cfg.flow.start_stage, "' not found in defined stages">>
  ELSE Ok

(***************************************************************************)
(* The state.                                                              *)
(***************************************************************************)
VARIABLES
  config,                \* the configuration document of CONFIG_PATH (json.load)
  phase,                 \* "load": entrypoint not yet run; "rejected": it raised;
                         \* "ready": session started, on_enter pending;
                         \* "active": on_enter has run
  current_stage_id,      \* UserData.current_stage_id
  context,               \* UserData.context
  conversation_history,  \* UserData.conversation_history
  said,                  \* the texts handed to session.say, in order
  chat_ctx,              \* the agent's chat context (update_chat_ctx)
  ended,                 \* history variable: a closing message has been said
                         \* (the source keeps no such field)
  call,                  \* history variable: the last handler run, its
                         \* argument and the exception it raised
  pre,                   \* history variable: the session as `call` found it
  ncalls,                \* history variable: handlers run since on_enter
  inflight,              \* the _enter_stage coroutines suspended at an await,
                         \* in the order they began
  overlapped,            \* history variable: a handler was started while an
                         \* _enter_stage coroutine was suspended
  fn_in,                 \* arguments of the last direct call of a pure method
                         \* (of _substitute_variables: the text of each call,
                         \* in order)
  fn_out,                \* its result (of _substitute_variables: of each call)
  heap,                  \* two sessions of one worker: the objects allocated,
                         \* a reference being an index (the UserData objects,
                         \* their context dicts and their history lists)
  sessions               \* two sessions of one worker: per session its phase,
                         \* the reference of its UserData, what its agent said,
                         \* the agent's chat context

vars == <<config, phase, current_stage_id, context, conversation_history, said,
          chat_ctx, ended, call, pre, ncalls, inflight, overlapped, fn_in, fn_out,
          heap, sessions>>

\* self.stages, which on_enter also stores as userdata.stages.
stages == config.flow.stages

\* The session as the handlers see it; exc is the exception a handler ends
\* with ("none": it returned).
Session ==
  [current_stage_id |-> current_stage_id, context |-> context,
   conversation_history |-> conversation_history, said |-> said,
   chat_ctx |-> chat_ctx, ended |-> ended, exc |-> "none"]

\* UserData(ctx=ctx) and a fresh agent: nothing said, empty chat context.
NewSession ==
  [current_stage_id |-> "", context |-> <<>>, conversation_history |-> <<>>,
   said |-> <<>>, chat_ctx |-> <<>>, ended |-> FALSE, exc |-> "none"]

(***************************************************************************)
(* multi_prompt_agent.py: MultiPromptAgent.  Each method is an operator    *)
(* from the session it finds to the session it leaves.                     *)
(***************************************************************************)

\* f"{{{{{key}}}}}": the marker of a context key.
Marker(key) == <<"{", "{">> \o key \o <<"}", "}">>

\* A substitution that replaces only the first occurrence of each marker.
RECURSIVE substitute_variables_first_occurrence(_, _)
substitute_variables_first_occurrence(text, ctx) ==
  IF ctx = <<>> THEN text
  ELSE substitute_variables_first_occurrence(
         ReplaceFirst(text, Marker(Head(ctx).key), PyStr(Head(ctx).val)), Tail(ctx))

\* _substitute_variables: one str.replace per context item, in dict order.
RECURSIVE substitute_variables(_, _)
substitute_variables(text, ctx) ==
  IF ctx = <<>> THEN text
  ELSE substitute_variables(
         Replace(text, Marker(Head(ctx).key), PyStr(Head(ctx).val)), Tail(ctx))

\* The closing message of move_to_next_stage("END") and of end_conversation:
\* "Thank you for contacting us. Have a great day!"
Farewell ==
  <<"T","h","a","n","k"," ","y","o","u"," ","f","o","r"," ",
    "c","o","n","t","a","c","t","i","n","g"," ","u","s","."," ",
    "H","a","v","e"," ","a"," ","g","r","e","a","t"," ","d","a","y","!">>

\* The default of next_stage.get("priority", 50).
DefaultPriority == 50

Priority(next_stage) ==
  IF "priority" \in DOMAIN next_stage THEN next_stage.priority ELSE DefaultPriority

\* A sort by descending priority that is not stable: of two transitions of
\* equal priority the one declared later comes first.
RECURSIVE sorted_next_stages_unstable(_)
sorted_next_stages_unstable(next_stages) ==
  IF next_stages = <<>> THEN <<>>
  ELSE LET n == Len(next_stages)
           x == next_stages[n]
           L == sorted_next_stages_unstable(SubSeq(next_stages, 1, n - 1))
           k == Cardinality({i \in 1..Len(L) : Priority(L[i]) > Priority(x)})
       IN SubSeq(L, 1, k) \o <<x>> \o SubSeq(L, k + 1, Len(L))

\* sorted(next_stages, key=priority, reverse=True): a stable sort, so
\* transitions of equal priority keep their declared order.
RECURSIVE sorted_next_stages(_)
sorted_next_stages(next_stages) ==
  IF next_stages = <<>> THEN <<>>
  ELSE LET n == Len(next_stages)
           x == next_stages[n]
           L == sorted_next_stages(SubSeq(next_stages, 1, n - 1))
           k == Cardinality({i \in 1..Len(L) : Priority(L[i]) >= Priority(x)})
       IN SubSeq(L, 1, k) \o <<x>> \o SubSeq(L, k + 1, Len(L))

\* any(keyword in user_lower for keyword in condition.lower().split())
condition_matches(next_stage, user_lower) ==
  LET condition_keywords == Split(Lower(next_stage.condition))
  IN \E i \in 1..Len(condition_keywords) : StrIn(condition_keywords[i], user_lower)

\* The loop of _find_next_stage over the sorted transitions: <<target>> of
\* the first whose condition matches, <<>> (None) when none does.
RECURSIVE first_match(_, _)
first_match(sorted, user_lower) ==
  IF sorted = <<>> THEN <<>>
  ELSE IF condition_matches(Head(sorted), user_lower) THEN <<Head(sorted).stage_id>>
  ELSE first_match(Tail(sorted), user_lower)

\* _find_next_stage, for a current_stage_id of the stage map: <<target>>, or
\* <<>> for None.
find_next_stage(user_input, stage_id, ctx) ==
  LET current_stage == DictGet(stages, stage_id)
  IN IF "next_stages" \notin DOMAIN current_stage THEN <<>>
     ELSE first_match(sorted_next_stages(current_stage.next_stages), Lower(user_input))

\* The lines of next_stages_info: none without "next_stages", else the
\* header and one line per transition.
next_stages_info(stage) ==
  IF "next_stages" \notin DOMAIN stage THEN <<>>
  ELSE <<"Possible next stages:">> \o
       [i \in 1..Len(stage.next_stages) |->
          [stage_id |-> stage.next_stages[i].stage_id,
           condition |-> stage.next_stages[i].condition,
           priority |-> Priority(stage.next_stages[i])]]

\* _update_stage_context: the system message (the stage context descriptor)
\* and the assistant message, added to a copy of the chat context, which
\* update_chat_ctx installs.  A field the message reads and the stage lacks
\* raises KeyError before anything is installed.
update_stage_context(S, stage, prompt) ==
  IF \/ /\ "next_stages" \in DOMAIN stage
        /\ \E i \in 1..Len(stage.next_stages) :
             ~HasAll(<<"stage_id", "condition">>, stage.next_stages[i])
     \/ FirstMissing(<<"id", "name", "description", "completion_criteria">>, stage) # <<>>
  THEN [S EXCEPT !.exc = "KeyError"]
  ELSE LET stage_system_msg ==
             [role |-> "system",
              base_instructions |-> config.agent_config.base_instructions,
              stage_id |-> stage.id, name |-> stage.name,
              description |-> stage.description,
              completion_criteria |-> stage.completion_criteria,
              context |-> S.context, prompt |-> prompt,
              next_stages_info |-> next_stages_info(stage)]
       IN [S EXCEPT !.chat_ctx =
             @ \o <<stage_system_msg, [role |-> "assistant", content |-> prompt]>>]

\* An _enter_stage that records the greeting it speaks in place of the
\* prompt.
enter_stage_records_greeting(S, stage_id) ==
  LET S1 == [S EXCEPT !.current_stage_id = stage_id]
  IN IF ~DictHas(stages, stage_id) THEN S1
     ELSE
       LET stage == DictGet(stages, stage_id)
           S2 == IF "context_updates" \in DOMAIN stage
                 THEN [S1 EXCEPT !.context = DictUpdate(@, stage.context_updates)]
                 ELSE S1
       IN IF FirstMissing(<<"greeting", "prompt", "name", "description",
                            "completion_criteria">>, stage) # <<>>
          THEN [S2 EXCEPT !.exc = "KeyError"]
          ELSE
            LET greeting == substitute_variables(stage.greeting, S2.context)
                prompt == substitute_variables(stage.prompt, S2.context)
                S3 == [S2 EXCEPT !.said = Append(@, greeting)]
                S4 == [S3 EXCEPT !.conversation_history =
                         Append(@, [role |-> "assistant", content |-> greeting,
                                    stage_id |-> stage_id])]
            IN update_stage_context(S4, stage, prompt)

\* _enter_stage.  The stage fields are read in the order greeting, prompt,
\* name, description, completion_criteria, all before session.say; the
\* first one missing raises KeyError.
enter_stage(S, stage_id) ==
  LET S1 == [S EXCEPT !.current_stage_id = stage_id]
  IN IF ~DictHas(stages, stage_id) THEN S1
     ELSE
       LET stage == DictGet(stages, stage_id)
           S2 == IF "context_updates" \in DOMAIN stage
                 THEN [S1 EXCEPT !.context = DictUpdate(@, stage.context_updates)]
                 ELSE S1
       IN IF FirstMissing(<<"greeting", "prompt", "name", "description",
                            "completion_criteria">>, stage) # <<>>
          THEN [S2 EXCEPT !.exc = "KeyError"]
          ELSE
            LET greeting == substitute_variables(stage.greeting, S2.context)
                prompt == substitute_variables(stage.prompt, S2.context)
                S3 == [S2 EXCEPT !.said = Append(@, greeting)]
                S4 == [S3 EXCEPT !.conversation_history =
                         Append(@, [role |-> "assistant", content |-> prompt,
                                    stage_id |-> stage_id])]
            IN update_stage_context(S4, stage, prompt)

\* [ns["stage_id"] for ns in current_stage["next_stages"]], [] without the
\* key; only membership is asked of the list.  (Every transition of a
\* validated document has "stage_id" and "condition".)
valid_transitions(current_stage) ==
  IF "next_stages" \in DOMAIN current_stage
  THEN {current_stage.next_stages[i].stage_id : i \in 1..Len(current_stage.next_stages)}
  ELSE {}

\* A move_to_next_stage that validates "END" like any other target.
move_to_next_stage_validates_end(S, target_stage) ==
  IF ~DictHas(stages, target_stage) THEN S
  ELSE IF ~DictHas(stages, S.current_stage_id) THEN [S EXCEPT !.exc = "KeyError"]
  ELSE IF target_stage \notin valid_transitions(DictGet(stages, S.current_stage_id))
  THEN S
  ELSE IF target_stage = "END"
  THEN [S EXCEPT !.said = Append(@, Farewell), !.ended = TRUE]
  ELSE enter_stage(S, target_stage)

\* A move_to_next_stage that does not check the transition against the
\* current stage's next_stages.
move_to_next_stage_unvalidated(S, target_stage) ==
  IF target_stage = "END"
  THEN [S EXCEPT !.said = Append(@, Farewell), !.ended = TRUE]
  ELSE IF ~DictHas(stages, target_stage) THEN S
  ELSE enter_stage(S, target_stage)

\* move_to_next_stage.  It returns None on every path.
move_to_next_stage(S, target_stage) ==
  IF target_stage = "END"
  THEN [S EXCEPT !.said = Append(@, Farewell), !.ended = TRUE]
  ELSE IF ~DictHas(stages, target_stage) THEN S
  ELSE IF ~DictHas(stages, S.current_stage_id) THEN [S EXCEPT !.exc = "KeyError"]
  ELSE IF target_stage \notin valid_transitions(DictGet(stages, S.current_stage_id))
  THEN S
  ELSE enter_stage(S, target_stage)

\* What move_to_next_stage hands back to its caller: every path ends in a
\* bare `return` or falls off the end of the function, and no path raises.
move_to_next_stage_returns(S, target_stage) ==
  IF target_stage = "END" THEN "None"
  ELSE IF ~DictHas(stages, target_stage) THEN "None"
  ELSE IF target_stage \notin valid_transitions(DictGet(stages, S.current_stage_id))
  THEN "None"
  ELSE "None"

\* complete_current_stage: `if next_stage:` is the truth value of the
\* resolver's result, false for None and for the empty string.
complete_current_stage(S, next_stage_reason) ==
  IF ~DictHas(stages, S.current_stage_id) THEN [S EXCEPT !.exc = "KeyError"]
  ELSE LET next_stage == find_next_stage(next_stage_reason, S.current_stage_id, S.context)
       IN IF next_stage # <<>> /\ next_stage[1] # ""
          THEN move_to_next_stage(S, next_stage[1])
          ELSE S

\* An end_conversation that forces the goodbye stage without asking whether
\* the graph has one.
end_conversation_forces_goodbye(S) ==
  IF ~DictHas(stages, S.current_stage_id) THEN [S EXCEPT !.exc = "KeyError"]
  ELSE LET valid == valid_transitions(DictGet(stages, S.current_stage_id))
       IN IF "completion" \in valid THEN move_to_next_stage(S, "completion")
          ELSE IF "goodbye" \in valid THEN move_to_next_stage(S, "goodbye")
          ELSE enter_stage(S, "goodbye")

\* An end_conversation that enters "completion" whenever the graph has such
\* a stage, declared from the current stage or not.
end_conversation_forces_completion(S) ==
  IF ~DictHas(stages, S.current_stage_id) THEN [S EXCEPT !.exc = "KeyError"]
  ELSE LET valid == valid_transitions(DictGet(stages, S.current_stage_id))
       IN IF DictHas(stages, "completion") THEN enter_stage(S, "completion")
          ELSE IF "goodbye" \in valid THEN move_to_next_stage(S, "goodbye")
          ELSE IF DictHas(stages, "goodbye") THEN enter_stage(S, "goodbye")
          ELSE [S EXCEPT !.said = Append(@, Farewell), !.ended = TRUE]

\* An end_conversation that asks for "goodbye" before "completion".
end_conversation_prefers_goodbye(S) ==
  IF ~DictHas(stages, S.current_stage_id) THEN [S EXCEPT !.exc = "KeyError"]
  ELSE LET valid == valid_transitions(DictGet(stages, S.current_stage_id))
       IN IF "goodbye" \in valid THEN move_to_next_stage(S, "goodbye")
          ELSE IF "completion" \in valid THEN move_to_next_stage(S, "completion")
          ELSE IF DictHas(stages, "goodbye") THEN enter_stage(S, "goodbye")
          ELSE [S EXCEPT !.said = Append(@, Farewell), !.ended = TRUE]

\* An end_conversation whose last resort ends the session without a word.
end_conversation_silent_last_resort(S) ==
  IF ~DictHas(stages, S.current_stage_id) THEN [S EXCEPT !.exc = "KeyError"]
  ELSE LET valid == valid_transitions(DictGet(stages, S.current_stage_id))
       IN IF "completion" \in valid THEN move_to_next_stage(S, "completion")
          ELSE IF "goodbye" \in valid THEN move_to_next_stage(S, "goodbye")
          ELSE IF DictHas(stages, "goodbye") THEN enter_stage(S, "goodbye")
          ELSE [S EXCEPT !.ended = TRUE]

\* end_conversation.
end_conversation(S) ==
  IF ~DictHas(stages, S.current_stage_id) THEN [S EXCEPT !.exc = "KeyError"]
  ELSE LET valid == valid_transitions(DictGet(stages, S.current_stage_id))
       IN IF "completion" \in valid THEN move_to_next_stage(S, "completion")
          ELSE IF "goodbye" \in valid THEN move_to_next_stage(S, "goodbye")
          ELSE IF DictHas(stages, "goodbye") THEN enter_stage(S, "goodbye")
          ELSE [S EXCEPT !.said = Append(@, Farewell), !.ended = TRUE]

\* An on_enter that starts in the first stage of the stage map.
on_enter_first_stage(S) ==
  enter_stage([S EXCEPT !.current_stage_id = stages[1].key], stages[1].key)

\* on_enter: the session starts in flow["start_stage"].
on_enter(S) ==
  enter_stage([S EXCEPT !.current_stage_id = config.flow.start_stage],
              config.flow.start_stage)

\* An on_user_speech_committed that follows the transition the utterance
\* matches.
on_user_speech_committed_transitions(S, user_msg) ==
  complete_current_stage(
    [S EXCEPT !.conversation_history =
       Append(@, [role |-> "user", content |-> user_msg,
                  stage_id |-> S.current_stage_id])],
    user_msg)

\* An on_user_speech_committed that keeps only the newest entry.
on_user_speech_committed_forgets(S, user_msg) ==
  [S EXCEPT !.conversation_history =
     <<[role |-> "user", content |-> user_msg, stage_id |-> S.current_stage_id]>>]

\* on_user_speech_committed.
on_user_speech_committed(S, user_msg) ==
  [S EXCEPT !.conversation_history =
     Append(@, [role |-> "user", content |-> user_msg,
                stage_id |-> S.current_stage_id])]

(***************************************************************************)
(* The handlers as coroutines.  _enter_stage awaits twice, at              *)
(* session.say(greeting) (line 302) and at update_chat_ctx (line 392); the *)
(* handlers await nothing else but _enter_stage and the closing            *)
(* session.say, after which they do nothing more.  A coroutine run to its  *)
(* first await either has returned (or raised), or is suspended in         *)
(* _enter_stage at session.say.                                            *)
(***************************************************************************)

\* The coroutine has ended, leaving session S.
Returned(S) == [session |-> S, awaiting |-> <<>>]

\* The coroutine is suspended at session.say(greeting) in the entry of
\* stage_id, leaving session S for the time being; prompt is the local
\* variable of _enter_stage.
AwaitingSay(S, stage_id, prompt) ==
  [session |-> S, awaiting |-> <<[stage_id |-> stage_id, prompt |-> prompt]>>]

\* _enter_stage up to `await self.session.say(greeting)` (lines 271-302):
\* the greeting has been handed to session.say.
enter_stage_to_say(S, stage_id) ==
  LET S1 == [S EXCEPT !.current_stage_id = stage_id]
  IN IF ~DictHas(stages, stage_id) THEN Returned(S1)
     ELSE
       LET stage == DictGet(stages, stage_id)
           S2 == IF "context_updates" \in DOMAIN stage
                 THEN [S1 EXCEPT !.context = DictUpdate(@, stage.context_updates)]
                 ELSE S1
       IN IF FirstMissing(<<"greeting", "prompt", "name", "description",
                            "completion_criteria">>, stage) # <<>>
          THEN Returned([S2 EXCEPT !.exc = "KeyError"])
          ELSE
            LET greeting == substitute_variables(stage.greeting, S2.context)
                prompt == substitute_variables(stage.prompt, S2.context)
            IN AwaitingSay([S2 EXCEPT !.said = Append(@, greeting)], stage_id, prompt)

\* _enter_stage from the return of session.say up to
\* `await self.update_chat_ctx(chat_ctx)` (lines 306-392), run on the
\* session S as it is by then: the history entry, and in chat_ctx the copy
\* of the chat context with the two messages added, which is still to be
\* installed.
enter_stage_after_say(S, stage_id, prompt) ==
  update_stage_context(
    [S EXCEPT !.conversation_history =
       Append(@, [role |-> "assistant", content |-> prompt, stage_id |-> stage_id])],
    DictGet(stages, stage_id), prompt)

\* move_to_next_stage up to its first await that something follows.  After
\* the closing session.say of the END branch nothing follows.
move_to_next_stage_to_say(S, target_stage) ==
  IF target_stage = "END"
  THEN Returned([S EXCEPT !.said = Append(@, Farewell), !.ended = TRUE])
  ELSE IF ~DictHas(stages, target_stage) THEN Returned(S)
  ELSE IF ~DictHas(stages, S.current_stage_id) THEN Returned([S EXCEPT !.exc = "KeyError"])
  ELSE IF target_stage \notin valid_transitions(DictGet(stages, S.current_stage_id))
  THEN Returned(S)
  ELSE enter_stage_to_say(S, target_stage)

complete_current_stage_to_say(S, next_stage_reason) ==
  IF ~DictHas(stages, S.current_stage_id) THEN Returned([S EXCEPT !.exc = "KeyError"])
  ELSE LET next_stage == find_next_stage(next_stage_reason, S.current_stage_id, S.context)
       IN IF next_stage # <<>> /\ next_stage[1] # ""
          THEN move_to_next_stage_to_say(S, next_stage[1])
          ELSE Returned(S)

end_conversation_to_say(S) ==
  IF ~DictHas(stages, S.current_stage_id) THEN Returned([S EXCEPT !.exc = "KeyError"])
  ELSE LET valid == valid_transitions(DictGet(stages, S.current_stage_id))
       IN IF "completion" \in valid THEN move_to_next_stage_to_say(S, "completion")
          ELSE IF "goodbye" \in valid THEN move_to_next_stage_to_say(S, "goodbye")
          ELSE IF DictHas(stages, "goodbye") THEN enter_stage_to_say(S, "goodbye")
          ELSE Returned([S EXCEPT !.said = Append(@, Farewell), !.ended = TRUE])

on_enter_to_say(S) ==
  enter_stage_to_say([S EXCEPT !.current_stage_id = config.flow.start_stage],
                     config.flow.start_stage)

(***************************************************************************)
(* The configuration documents the model is run on.                        *)
(***************************************************************************)

GlobalSettings ==
  [llm_settings |-> [provider |-> "openai", model |-> "gpt-4o-mini", temperature |-> 1],
   stt_settings |-> [provider |-> "deepgram", model |-> "nova-2", language |-> "en"],
   tts_settings |-> [provider |-> "cartesia", model |-> "sonic", voice |-> "v"]]

AgentConfig == [name |-> "agent", base_instructions |-> "be helpful"]

StrVal(s) == [t |-> "str", v |-> s]
IntVal(n) == [t |-> "int", v |-> n]

\* d without key k.
Without(d, k) == [f \in DOMAIN d \ {k} |-> d[f]]

\* {"stage_id": .., "condition": .., "priority": ..} and the same without
\* "priority".
Transition(target, condition, priority) ==
  [stage_id |-> target, condition |-> condition, priority |-> priority]
TransitionNoPriority(target, condition) ==
  [stage_id |-> target, condition |-> condition]

\* A stage with every field of the documented schema.
Stage(id, greeting, prompt, context_updates, next_stages) ==
  [id |-> id, name |-> "n", description |-> "d", greeting |-> greeting,
   prompt |-> prompt, completion_criteria |-> "c",
   context_updates |-> context_updates, next_stages |-> next_stages]

Document(start_stage, stage_map) ==
  [global_settings |-> GlobalSettings, agent_config |-> AgentConfig,
   flow |-> [start_stage |-> start_stage, stages |-> stage_map]]

\* Context keys "k" and "j", and texts.
KeyK == <<"k">>
KeyJ == <<"j">>
BillPayment == <<"b","i","l","l"," ","p","a","y","m","e","n","t">>
Bye == <<"B","y","e">>
DonePaid == <<"d","o","n","e"," ","p","a","i","d">>
PayMyBill == <<"I"," ","n","e","e","d"," ","t","o"," ","p","a","y"," ","m","y"," ","B","i","l","l">>
Hello == <<"h","e","l","l","o">>

\* The scenario of the documentation: greeting -> billing on "bill payment"
\* with priority 100, billing -> END; with a completion and a goodbye stage.
CfgBilling ==
  Document("greeting", <<
    [key |-> "greeting", val |->
       Stage("greeting", <<"h","i"," ">> \o Marker(KeyK), <<"a","s","k">> \o Marker(KeyK),
             <<[key |-> KeyK, val |-> StrVal(<<"u">>)]>>,
             <<TransitionNoPriority("goodbye", Bye),
               Transition("billing", BillPayment, 100)>>)],
    [key |-> "billing", val |->
       Stage("billing", <<"p","a","y">>, Marker(KeyK) \o <<"o","w","e">> \o Marker(KeyJ),
             <<[key |-> KeyJ, val |-> IntVal(12)], [key |-> KeyK, val |-> StrVal(<<"w">>)]>>,
             <<Transition("END", Bye, 10),
               Transition("completion", DonePaid, 10)>>)],
    [key |-> "completion", val |->
       Without(Without(Stage("completion", <<"o","k">>, <<"w","r","a","p">>, <<>>, <<>>),
                       "context_updates"), "next_stages")],
    [key |-> "goodbye", val |->
       Without(Stage("goodbye", <<"b","y","e">>, <<"e","n","d">> \o Marker(KeyJ), <<>>, <<>>),
               "context_updates")] >>)

\* No "completion" and no "goodbye" stage; a stage whose key is the empty
\* string; a stage whose "id" is not its key.
CfgPlain ==
  Document("a", <<
    [key |-> "a", val |->
       Stage("a", <<"A">>, <<"p","a">>, <<[key |-> KeyK, val |-> IntVal(7)]>>,
             <<TransitionNoPriority("", Bye),
               TransitionNoPriority("b", BillPayment)>>)],
    [key |-> "b", val |->
       Stage("bee", <<"B">> \o Marker(KeyK), <<"p","b">>, <<>>,
             <<Transition("a", Hello, 50), TransitionNoPriority("END", Bye)>>)],
    [key |-> "", val |->
       Stage("", <<"E">>, <<"p","e">>, <<[key |-> KeyK, val |-> StrVal(<<"x">>)]>>,
             <<Transition("a", Bye, 1)>>)] >>)

\* Accepted by the validator, which asks a stage for neither "greeting" nor
\* "description": the completion stage has no greeting, the goodbye stage no
\* description.
CfgNoGreeting ==
  Document("intro", <<
    [key |-> "intro", val |->
       Stage("intro", <<"y","o">>, <<"p","i">>, <<>>,
             <<Transition("completion", DonePaid, 5),
               Transition("goodbye", Bye, 5)>>)],
    [key |-> "completion", val |->
       Without(Stage("completion", <<>>, <<"p","c">>,
                     <<[key |-> KeyK, val |-> StrVal(<<"z">>)]>>, <<>>), "greeting")],
    [key |-> "goodbye", val |->
       Without(Stage("goodbye", <<"c","u">>, <<"p","g">>, <<>>, <<>>), "description")] >>)

\* The start stage is not the first stage of the map; "menu" declares
\* "goodbye" with a higher priority than "completion"; "goodbye" adds a
\* context key and leads back to "menu".
CfgEnding ==
  Document("menu", <<
    [key |-> "completion", val |->
       Without(Stage("completion", <<"o","k">>, <<"p","c">> \o Marker(KeyK), <<>>, <<>>),
               "next_stages")],
    [key |-> "menu", val |->
       Stage("menu", <<"m">>, <<"p","m">>, <<[key |-> KeyK, val |-> IntVal(3)]>>,
             <<Transition("goodbye", Bye, 90),
               Transition("completion", Bye, 10)>>)],
    [key |-> "goodbye", val |->
       Stage("goodbye", <<"g">>, <<"p","g">>, <<[key |-> KeyJ, val |-> StrVal(<<"g">>)]>>,
             <<Transition("menu", Hello, 50)>>)] >>)

\* Rejected: no "flow"; a start stage that is no stage; a transition to a
\* stage that does not exist; a stage without "prompt".
CfgNoFlow == Without(CfgPlain, "flow")
CfgBadStart == Document("nowhere", CfgPlain.flow.stages)
CfgDangling ==
  Document("a", <<
    [key |-> "a", val |->
       Stage("a", <<"A">>, <<"p","a">>, <<>>, <<TransitionNoPriority("ghost", Bye)>>)] >>)
CfgNoPrompt ==
  Document("a", <<
    [key |-> "a", val |-> Without(Stage("a", <<"A">>, <<"p","a">>, <<>>, <<>>), "prompt")] >>)

Configs ==
  {CfgBilling, CfgPlain, CfgNoGreeting, CfgEnding,
   CfgNoFlow, CfgBadStart, CfgDangling, CfgNoPrompt}

\* What the user says and what the LLM gives as a reason.
Texts == {PayMyBill, Bye, Hello}

\* The targets the LLM may name: the stages of the configuration, "END",
\* and a stage that does not exist.
Targets == DictKeys(stages) \cup {"END", "nowhere"}

(***************************************************************************)
(* The program: entrypoint validates the document and starts the session,  *)
(* the session runs on_enter, and from then on the speech input and the    *)
(* LLM call the handlers, one call at a time.                              *)
(***************************************************************************)

\* Handlers run after on_enter in one behaviour of the model.
MaxCalls == 4

NoCall == [op |-> "none", target |-> "n/a", text |-> <<>>, exc |-> "none"]

Init ==
  /\ config \in Configs
  /\ phase = "load"
  /\ current_stage_id = NewSession.current_stage_id
  /\ context = NewSession.context
  /\ conversation_history = NewSession.conversation_history
  /\ said = NewSession.said
  /\ chat_ctx = NewSession.chat_ctx
  /\ ended = FALSE
  /\ call = NoCall
  /\ pre = NewSession
  /\ ncalls = 0
  /\ inflight = <<>>
  /\ overlapped = FALSE
  /\ fn_in = <<>>
  /\ fn_out = <<>>
  /\ heap = <<>>
  /\ sessions = <<>>

\* The session becomes R, the result of handler `op`.
Becomes(R, op, target, text) ==
  /\ current_stage_id' = R.current_stage_id
  /\ context' = R.context
  /\ conversation_history' = R.conversation_history
  /\ said' = R.said
  /\ chat_ctx' = R.chat_ctx
  /\ ended' = R.ended
  /\ call' = [op |-> op, target |-> target, text |-> text, exc |-> R.exc]
  /\ pre' = Session
  /\ UNCHANGED <<config, inflight, overlapped, fn_in, fn_out,
                 heap, sessions>>

\* run_agent.entrypoint: a document that fails a check raises and no
\* session is started.
Entrypoint ==
  /\ phase = "load"
  /\ phase' = IF entrypoint_checks(config) = Ok THEN "ready" ELSE "rejected"
  /\ call' = [op |-> "entrypoint", target |-> "n/a", text |-> <<>>,
              exc |-> IF entrypoint_checks(config) = Ok THEN "none" ELSE "ValueError"]
  /\ pre' = Session
  /\ UNCHANGED <<config, current_stage_id, context, conversation_history, said,
                 chat_ctx, ended, ncalls, inflight, overlapped, fn_in, fn_out,
                 heap, sessions>>

OnEnter ==
  /\ phase = "ready"
  /\ phase' = "active"
  /\ Becomes(on_enter(Session), "on_enter", "n/a", <<>>)
  /\ UNCHANGED ncalls

Callable == phase = "active" /\ ncalls < MaxCalls

OnUserSpeechCommitted ==
  /\ Callable
  /\ \E user_msg \in Texts :
       Becomes(on_user_speech_committed(Session, user_msg),
               "on_user_speech_committed", "n/a", user_msg)
  /\ ncalls' = ncalls + 1
  /\ UNCHANGED phase

MoveToNextStage ==
  /\ Callable
  /\ \E target_stage \in Targets :
       Becomes(move_to_next_stage(Session, target_stage),
               "move_to_next_stage", target_stage, <<>>)
  /\ ncalls' = ncalls + 1
  /\ UNCHANGED phase

CompleteCurrentStage ==
  /\ Callable
  /\ \E next_stage_reason \in Texts :
       Becomes(complete_current_stage(Session, next_stage_reason),
               "complete_current_stage", "n/a", next_stage_reason)
  /\ ncalls' = ncalls + 1
  /\ UNCHANGED phase

EndConversation ==
  /\ Callable
  /\ Becomes(end_conversation(Session), "end_conversation", "n/a", <<>>)
  /\ ncalls' = ncalls + 1
  /\ UNCHANGED phase

Next ==
  \/ Entrypoint
  \/ OnEnter
  \/ OnUserSpeechCommitted
  \/ MoveToNextStage
  \/ CompleteCurrentStage
  \/ EndConversation

Spec == Init /\ [][Next]_vars

(***************************************************************************)
(* _enter_stage called directly, with any stage id: the method as a unit.  *)
(***************************************************************************)

EnterStage ==
  /\ Callable
  /\ \E stage_id \in Targets :
       Becomes(enter_stage(Session, stage_id), "_enter_stage", stage_id, <<>>)
  /\ ncalls' = ncalls + 1
  /\ UNCHANGED phase

NextDirect == Next \/ EnterStage

SpecDirect == Init /\ [][NextDirect]_vars

(***************************************************************************)
(* _find_next_stage called directly, on every list of transitions and      *)
(* every input text within the bounds.                                     *)
(***************************************************************************)

\* The longest next_stages list and the longest input text drawn.
MaxNextStages == 2
MaxInputLen == 2

SeqsUpTo(S, n) == UNION {[1..m -> S] : m \in 0..n}

FindTargets == {"x", "y"}
FindConditions == {<<"a", " ", "B">>, <<"A", "b">>, <<" ">>}
FindPriorities == {10, 90}
FindTransitions ==
  {Transition(t, c, p) : t \in FindTargets, c \in FindConditions, p \in FindPriorities}
  \cup {TransitionNoPriority(t, c) : t \in FindTargets, c \in FindConditions}
FindInputs == SeqsUpTo({"a", "A", "b", " "}, MaxInputLen)

\* One stage "s" with the drawn next_stages, or with no "next_stages" field.
FindDocuments ==
  {Document("s", <<[key |-> "s", val |-> Stage("s", <<>>, <<>>, <<>>, ns)]>>) :
     ns \in SeqsUpTo(FindTransitions, MaxNextStages)}
  \cup {Document("s", <<[key |-> "s", val |->
                           Without(Stage("s", <<>>, <<>>, <<>>, <<>>), "next_stages")]>>)}

InitFind ==
  /\ config \in FindDocuments
  /\ phase = "active"
  /\ current_stage_id = "s"
  /\ context = <<>>
  /\ conversation_history = <<>>
  /\ said = <<>>
  /\ chat_ctx = <<>>
  /\ ended = FALSE
  /\ call = NoCall
  /\ pre = NewSession
  /\ ncalls = 0
  /\ inflight = <<>>
  /\ overlapped = FALSE
  /\ fn_in = <<>>
  /\ fn_out = <<>>
  /\ heap = <<>>
  /\ sessions = <<>>

\* One call in a behaviour: the call of the drawn list on a drawn input.
FindNextStage ==
  /\ call.op = "none"
  /\ \E user_input \in FindInputs :
       /\ fn_in' = <<user_input>>
       /\ fn_out' = find_next_stage(user_input, current_stage_id, context)
  /\ call' = [op |-> "_find_next_stage", target |-> "n/a", text |-> <<>>, exc |-> "none"]
  /\ UNCHANGED <<config, phase, current_stage_id, context, conversation_history,
                 said, chat_ctx, ended, pre, ncalls, inflight, overlapped,
                 heap, sessions>>

NextFind == FindNextStage

SpecFind == InitFind /\ [][NextFind]_vars

(***************************************************************************)
(* The handlers as coroutines of one event loop.  The source takes no lock *)
(* and keeps no in-flight flag: while an _enter_stage is suspended at an   *)
(* await the loop is free to start any handler and to resume any other     *)
(* suspended coroutine.  A step runs one coroutine from one await to the   *)
(* next.  The handlers are called once on_enter has ended.                 *)
(***************************************************************************)

\* Handlers started after on_enter in one behaviour.
MaxAsyncCalls == 2

SessionBecomes(R) ==
  /\ current_stage_id' = R.current_stage_id
  /\ context' = R.context
  /\ conversation_history' = R.conversation_history
  /\ said' = R.said
  /\ chat_ctx' = R.chat_ctx
  /\ ended' = R.ended

\* A suspended _enter_stage: the handler call it belongs to and the session
\* that call found; the locals stage_id and prompt; where it is suspended
\* ("say" or "update_chat_ctx"); the chat context it is about to install.
\* rendered_with is a history field: the context the prompt was substituted
\* with.
Suspended(c, awaiting, S) ==
  [call |-> c, pre |-> Session, stage_id |-> awaiting.stage_id,
   prompt |-> awaiting.prompt, rendered_with |-> S.context,
   at |-> "say", chat_ctx |-> <<>>]

\* Handler `op` is started and runs to its first await, with result r.
Begins(r, op, target, text) ==
  LET c == [op |-> op, target |-> target, text |-> text, exc |-> r.session.exc]
  IN /\ SessionBecomes(r.session)
     /\ call' = c
     /\ pre' = Session
     /\ inflight' = IF r.awaiting = <<>> THEN inflight
                    ELSE Append(inflight, Suspended(c, r.awaiting[1], r.session))
     /\ UNCHANGED <<config, fn_in, fn_out,
                 heap, sessions>>

AsyncOnEnter ==
  /\ phase = "ready"
  /\ phase' = "active"
  /\ Begins(on_enter_to_say(Session), "on_enter", "n/a", <<>>)
  /\ UNCHANGED <<ncalls, overlapped>>

AsyncCallable ==
  /\ phase = "active"
  /\ ncalls < MaxAsyncCalls
  /\ \A i \in 1..Len(inflight) : inflight[i].call.op # "on_enter"

\* The bookkeeping of a started handler.
Started ==
  /\ ncalls' = ncalls + 1
  /\ overlapped' = (overlapped \/ inflight # <<>>)
  /\ UNCHANGED phase

AsyncOnUserSpeechCommitted ==
  /\ AsyncCallable
  /\ \E user_msg \in Texts :
       Begins(Returned(on_user_speech_committed(Session, user_msg)),
              "on_user_speech_committed", "n/a", user_msg)
  /\ Started

AsyncMoveToNextStage ==
  /\ AsyncCallable
  /\ \E target_stage \in Targets :
       Begins(move_to_next_stage_to_say(Session, target_stage),
              "move_to_next_stage", target_stage, <<>>)
  /\ Started

AsyncCompleteCurrentStage ==
  /\ AsyncCallable
  /\ \E next_stage_reason \in Texts :
       Begins(complete_current_stage_to_say(Session, next_stage_reason),
              "complete_current_stage", "n/a", next_stage_reason)
  /\ Started

AsyncEndConversation ==
  /\ AsyncCallable
  /\ Begins(end_conversation_to_say(Session), "end_conversation", "n/a", <<>>)
  /\ Started

\* inflight without its i-th coroutine.
Remove(i) == SubSeq(inflight, 1, i - 1) \o SubSeq(inflight, i + 1, Len(inflight))

\* session.say returns to a suspended _enter_stage, which runs on to
\* update_chat_ctx.
SayReturns ==
  \E i \in 1..Len(inflight) :
    LET t == inflight[i]
        R == enter_stage_after_say(Session, t.stage_id, t.prompt)
    IN /\ t.at = "say"
       /\ SessionBecomes([R EXCEPT !.chat_ctx = chat_ctx])
       /\ call' = [t.call EXCEPT !.exc = R.exc]
       /\ pre' = t.pre
       /\ inflight' = IF R.exc # "none" THEN Remove(i)
                      ELSE [inflight EXCEPT ![i].at = "update_chat_ctx",
                                            ![i].chat_ctx = R.chat_ctx]
       /\ UNCHANGED <<config, phase, ncalls, overlapped, fn_in, fn_out,
                 heap, sessions>>

\* session.say is cancelled or fails: the exception leaves _enter_stage and
\* the handler that awaits it, neither of which catches anything.
SayCancelled ==
  \E i \in 1..Len(inflight) :
    LET t == inflight[i]
    IN /\ t.at = "say"
       /\ call' = [t.call EXCEPT !.exc = "CancelledError"]
       /\ pre' = t.pre
       /\ inflight' = Remove(i)
       /\ UNCHANGED <<config, phase, current_stage_id, context, conversation_history,
                      said, chat_ctx, ended, ncalls, overlapped, fn_in, fn_out,
                 heap, sessions>>

\* update_chat_ctx installs the chat context it was given and the
\* _enter_stage returns.
ChatCtxUpdated ==
  \E i \in 1..Len(inflight) :
    LET t == inflight[i]
    IN /\ t.at = "update_chat_ctx"
       /\ chat_ctx' = t.chat_ctx
       /\ call' = t.call
       /\ pre' = t.pre
       /\ inflight' = Remove(i)
       /\ UNCHANGED <<config, phase, current_stage_id, context, conversation_history,
                      said, ended, ncalls, overlapped, fn_in, fn_out,
                 heap, sessions>>

NextAsync ==
  \/ Entrypoint
  \/ AsyncOnEnter
  \/ AsyncOnUserSpeechCommitted
  \/ AsyncMoveToNextStage
  \/ AsyncCompleteCurrentStage
  \/ AsyncEndConversation
  \/ SayReturns
  \/ SayCancelled
  \/ ChatCtxUpdated

SpecAsync == Init /\ [][NextAsync]_vars

(***************************************************************************)
(* The validator on damaged documents: a document with every field of the  *)
(* schema, and what is left of it after up to MaxDefects fields are        *)
(* removed or references broken.                                           *)
(***************************************************************************)

\* The most defects one drawn document has.
MaxDefects == 2

\* Two stages; the first declares a transition to the second and one to END.
ValidBase ==
  Document("s1", <<
    [key |-> "s1", val |->
       Stage("s1", <<"g">>, <<"p">>, <<[key |-> KeyK, val |-> IntVal(1)]>>,
             <<Transition("s2", Bye, 10), TransitionNoPriority("END", Hello)>>)],
    [key |-> "s2", val |-> Stage("s2", <<"h">>, <<"q">>, <<>>, <<>>)] >>)

Defect(kind, section, stage, transition, key) ==
  [kind |-> kind, section |-> section, stage |-> stage, transition |-> transition,
   key |-> key]

\* What can be wrong with a document: a field removed at one of the levels
\* of the schema (the optional fields included), the start stage renamed to
\* a stage that does not exist, a transition retargeted to one.
Defects ==
  {Defect("top", "", 0, 0, k) : k \in {"global_settings", "agent_config", "flow"}}
  \cup {Defect("section", "", 0, 0, k) :
          k \in {"llm_settings", "stt_settings", "tts_settings"}}
  \cup {Defect("sub", "llm_settings", 0, 0, k) : k \in {"provider", "model", "temperature"}}
  \cup {Defect("sub", "stt_settings", 0, 0, k) : k \in {"provider", "model", "language"}}
  \cup {Defect("sub", "tts_settings", 0, 0, k) : k \in {"provider", "model", "voice"}}
  \cup {Defect("agent", "", 0, 0, k) : k \in {"name", "base_instructions"}}
  \cup {Defect("flow", "", 0, 0, k) : k \in {"start_stage", "stages"}}
  \cup {Defect("start", "", 0, 0, "nowhere")}
  \cup {Defect("stage", "", s, 0, k) :
          s \in 1..2,
          k \in {"id", "name", "prompt", "completion_criteria", "greeting",
                 "description", "context_updates", "next_stages"}}
  \cup {Defect("transition", "", 1, t, k) :
          t \in 1..2, k \in {"stage_id", "condition", "priority"}}
  \cup {Defect("target", "", 1, t, "ghost") : t \in 1..2}

HasStage(doc, s) ==
  /\ "flow" \in DOMAIN doc
  /\ "stages" \in DOMAIN doc.flow
  /\ s \in 1..Len(doc.flow.stages)

HasTransition(doc, s, t) ==
  /\ HasStage(doc, s)
  /\ "next_stages" \in DOMAIN doc.flow.stages[s].val
  /\ t \in 1..Len(doc.flow.stages[s].val.next_stages)

\* The document with defect d; a defect of a part that is no longer there
\* changes nothing.
Damage(doc, d) ==
  CASE d.kind = "top" -> Without(doc, d.key)
    [] d.kind = "section" ->
         IF "global_settings" \in DOMAIN doc
         THEN [doc EXCEPT !.global_settings = Without(@, d.key)] ELSE doc
    [] d.kind = "sub" ->
         IF "global_settings" \in DOMAIN doc /\ d.section \in DOMAIN doc.global_settings
         THEN [doc EXCEPT !.global_settings[d.section] = Without(@, d.key)] ELSE doc
    [] d.kind = "agent" ->
         IF "agent_config" \in DOMAIN doc
         THEN [doc EXCEPT !.agent_config = Without(@, d.key)] ELSE doc
    [] d.kind = "flow" ->
         IF "flow" \in DOMAIN doc THEN [doc EXCEPT !.flow = Without(@, d.key)] ELSE doc
    [] d.kind = "start" ->
         IF "flow" \in DOMAIN doc /\ "start_stage" \in DOMAIN doc.flow
         THEN [doc EXCEPT !.flow.start_stage = d.key] ELSE doc
    [] d.kind = "stage" ->
         IF HasStage(doc, d.stage)
         THEN [doc EXCEPT !.flow.stages[d.stage].val = Without(@, d.key)] ELSE doc
    [] d.kind = "transition" ->
         IF HasTransition(doc, d.stage, d.transition)
         THEN [doc EXCEPT !.flow.stages[d.stage].val.next_stages[d.transition] =
                            Without(@, d.key)]
         ELSE doc
    [] d.kind = "target" ->
         IF /\ HasTransition(doc, d.stage, d.transition)
            /\ "stage_id" \in DOMAIN doc.flow.stages[d.stage].val.next_stages[d.transition]
         THEN [doc EXCEPT !.flow.stages[d.stage].val.next_stages[d.transition].stage_id =
                            d.key]
         ELSE doc

RECURSIVE DamageAll(_, _)
DamageAll(doc, ds) ==
  IF ds = <<>> THEN doc ELSE DamageAll(Damage(doc, Head(ds)), Tail(ds))

ValidateDocuments == {DamageAll(ValidBase, ds) : ds \in SeqsUpTo(Defects, MaxDefects)}

InitValidate ==
  /\ config \in ValidateDocuments
  /\ phase = "load"
  /\ current_stage_id = NewSession.current_stage_id
  /\ context = NewSession.context
  /\ conversation_history = NewSession.conversation_history
  /\ said = NewSession.said
  /\ chat_ctx = NewSession.chat_ctx
  /\ ended = FALSE
  /\ call = NoCall
  /\ pre = NewSession
  /\ ncalls = 0
  /\ inflight = <<>>
  /\ overlapped = FALSE
  /\ fn_in = <<>>
  /\ fn_out = <<>>
  /\ heap = <<>>
  /\ sessions = <<>>

\* SchemaValidator(config_path): the document is loaded and _validate_config
\* returns or raises; fn_out is the outcome.
ValidateConfig ==
  /\ fn_out = <<>>
  /\ fn_out' = validate_config(config)
  /\ call' = [op |-> "_validate_config", target |-> "n/a", text |-> <<>>,
              exc |-> IF validate_config(config) = Ok THEN "none" ELSE "ValueError"]
  /\ UNCHANGED <<config, phase, current_stage_id, context, conversation_history,
                 said, chat_ctx, ended, pre, ncalls, inflight, overlapped, fn_in,
                 heap, sessions>>

\* The validator on its own, and the entrypoint that runs it before it
\* starts a session.
NextValidate == ValidateConfig \/ Entrypoint

SpecValidate == InitValidate /\ [][NextValidate]_vars

(***************************************************************************)
(* _substitute_variables called directly, on every text and every context  *)
(* within the bounds, and called again on its own result.                  *)
(***************************************************************************)

\* The longest text drawn, in pieces.
MaxPieces == 3

\* A text is a concatenation of these: the markers of the two keys, double
\* and single braces, and letters.
SubstPieces ==
  {Marker(<<"a">>), Marker(<<"b">>), <<"{", "{">>, <<"}", "}">>, <<"{">>, <<"}">>,
   <<"a">>, <<"b">>}

RECURSIVE Concat(_)
Concat(pieces) == IF pieces = <<>> THEN <<>> ELSE Head(pieces) \o Concat(Tail(pieces))

SubstTexts == {Concat(ps) : ps \in SeqsUpTo(SubstPieces, MaxPieces)}

SubstKeys == {<<"a">>, <<"b">>}

\* Values: the empty string, a string without braces, a number, an opening
\* double brace.
SubstValues == {StrVal(<<>>), StrVal(<<"z">>), IntVal(7), StrVal(<<"{", "{">>)}

\* The contexts over the keys: none, one, or both in either order.
SubstContexts ==
  {<<>>}
  \cup {<<[key |-> k, val |-> v]>> : k \in SubstKeys, v \in SubstValues}
  \cup {c \in {<<[key |-> k1, val |-> v1], [key |-> k2, val |-> v2]>> :
                  k1 \in SubstKeys, k2 \in SubstKeys, v1 \in SubstValues,
                  v2 \in SubstValues} :
          c[1].key # c[2].key}

InitSubst ==
  /\ config = CfgPlain
  /\ phase = "active"
  /\ current_stage_id = "a"
  /\ context \in SubstContexts
  /\ conversation_history = <<>>
  /\ said = <<>>
  /\ chat_ctx = <<>>
  /\ ended = FALSE
  /\ call = NoCall
  /\ pre = NewSession
  /\ ncalls = 0
  /\ inflight = <<>>
  /\ overlapped = FALSE
  /\ fn_in = <<>>
  /\ fn_out = <<>>
  /\ heap = <<>>
  /\ sessions = <<>>

\* self._substitute_variables(text, self.session.userdata.context).
Substitutes(text) ==
  /\ fn_in' = Append(fn_in, text)
  /\ fn_out' = Append(fn_out, substitute_variables(text, context))
  /\ call' = [op |-> "_substitute_variables", target |-> "n/a", text |-> text,
              exc |-> "none"]
  /\ pre' = Session
  /\ UNCHANGED <<config, phase, current_stage_id, context, conversation_history,
                 said, chat_ctx, ended, ncalls, inflight, overlapped,
                 heap, sessions>>

\* The call on a drawn text ...
SubstituteVariables ==
  /\ fn_in = <<>>
  /\ \E text \in SubstTexts : Substitutes(text)

\* ... and the call on the result of that call.
SubstituteAgain ==
  /\ Len(fn_in) = 1
  /\ Substitutes(fn_out[1])

NextSubst == SubstituteVariables \/ SubstituteAgain

SpecSubst == InitSubst /\ [][NextSubst]_vars

(***************************************************************************)
(* Two sessions of one worker.  entrypoint runs once per job: each run      *)
(* loads the document, creates a UserData, an agent and a session.  The    *)
(* objects a UserData refers to are kept in a heap, so that two sessions   *)
(* holding a reference to one object would see each other's writes.  The   *)
(* handlers of a session run one at a time; those of the two sessions      *)
(* interleave freely.                                                      *)
(***************************************************************************)

\* Handler calls of the two sessions together in one behaviour.
MaxTwoCalls == 2

\* A dataclass whose context and conversation_history defaults are single
\* objects made with the class: every instance refers to the first ones.
NewUserData_shared_defaults(h) ==
  IF h = <<>>
  THEN [heap |-> <<<<>>, <<>>,
                   [current_stage_id |-> "", context |-> 1, conversation_history |-> 2]>>,
        ref |-> 3]
  ELSE [heap |-> Append(h, [current_stage_id |-> "", context |-> 1,
                            conversation_history |-> 2]),
        ref |-> Len(h) + 1]

\* UserData(ctx=ctx): default_factory makes a new dict and a new list for
\* the instance; the result is the heap with the three objects and the
\* reference of the UserData.
NewUserData(h) ==
  [heap |-> h \o <<<<>>, <<>>,
                   [current_stage_id |-> "", context |-> Len(h) + 1,
                    conversation_history |-> Len(h) + 2]>>,
   ref |-> Len(h) + 3]

\* session.userdata of session i, and the session as its handlers see it.
UserDataOf(i) == heap[sessions[i].userdata]

SessionOf(i) ==
  [current_stage_id |-> UserDataOf(i).current_stage_id,
   context |-> heap[UserDataOf(i).context],
   conversation_history |-> heap[UserDataOf(i).conversation_history],
   said |-> sessions[i].said, chat_ctx |-> sessions[i].chat_ctx,
   ended |-> sessions[i].ended, exc |-> "none"]

InitTwo ==
  /\ config \in Configs
  /\ phase = "load"
  /\ current_stage_id = NewSession.current_stage_id
  /\ context = NewSession.context
  /\ conversation_history = NewSession.conversation_history
  /\ said = NewSession.said
  /\ chat_ctx = NewSession.chat_ctx
  /\ ended = FALSE
  /\ call = NoCall
  /\ pre = NewSession
  /\ ncalls = 0
  /\ inflight = <<>>
  /\ overlapped = FALSE
  /\ fn_in = <<>>
  /\ fn_out = <<>>
  /\ heap = <<>>
  /\ sessions = [i \in 1..2 |->
                   [phase |-> "load", userdata |-> 0, said |-> <<>>,
                    chat_ctx |-> <<>>, ended |-> FALSE]]

TwoUnchanged ==
  UNCHANGED <<config, phase, current_stage_id, context, conversation_history, said,
              chat_ctx, ended, inflight, overlapped, fn_in, fn_out>>

\* entrypoint of job i.
TwoEntrypoint ==
  \E i \in 1..2 :
    /\ sessions[i].phase = "load"
    /\ IF entrypoint_checks(config) = Ok
       THEN /\ heap' = NewUserData(heap).heap
            /\ sessions' = [sessions EXCEPT ![i].phase = "ready",
                                            ![i].userdata = NewUserData(heap).ref]
       ELSE /\ sessions' = [sessions EXCEPT ![i].phase = "rejected"]
            /\ UNCHANGED heap
    /\ call' = [op |-> "entrypoint", target |-> "n/a", text |-> <<>>,
                exc |-> IF entrypoint_checks(config) = Ok THEN "none" ELSE "ValueError",
                session |-> i]
    /\ pre' = NewSession
    /\ UNCHANGED ncalls
    /\ TwoUnchanged

\* Session i becomes R, the result of handler `op`: the handler's writes go
\* to the objects its UserData refers to.
TwoBecomes(i, R, op, target, text) ==
  /\ heap' = [heap EXCEPT
                ![sessions[i].userdata].current_stage_id = R.current_stage_id,
                ![UserDataOf(i).context] = R.context,
                ![UserDataOf(i).conversation_history] = R.conversation_history]
  /\ sessions' = [sessions EXCEPT ![i].said = R.said, ![i].chat_ctx = R.chat_ctx,
                                  ![i].ended = R.ended]
  /\ call' = [op |-> op, target |-> target, text |-> text, exc |-> R.exc,
              session |-> i]
  /\ pre' = SessionOf(i)
  /\ TwoUnchanged

TwoOnEnter ==
  \E i \in 1..2 :
    /\ sessions[i].phase = "ready"
    /\ heap' = [heap EXCEPT
                  ![sessions[i].userdata].current_stage_id =
                     on_enter(SessionOf(i)).current_stage_id,
                  ![UserDataOf(i).context] = on_enter(SessionOf(i)).context,
                  ![UserDataOf(i).conversation_history] =
                     on_enter(SessionOf(i)).conversation_history]
    /\ sessions' = [sessions EXCEPT ![i].phase = "active",
                                    ![i].said = on_enter(SessionOf(i)).said,
                                    ![i].chat_ctx = on_enter(SessionOf(i)).chat_ctx,
                                    ![i].ended = on_enter(SessionOf(i)).ended]
    /\ call' = [op |-> "on_enter", target |-> "n/a", text |-> <<>>,
                exc |-> on_enter(SessionOf(i)).exc, session |-> i]
    /\ pre' = SessionOf(i)
    /\ UNCHANGED ncalls
    /\ TwoUnchanged

TwoCallable(i) == sessions[i].phase = "active" /\ ncalls < MaxTwoCalls

TwoOnUserSpeechCommitted ==
  \E i \in 1..2 :
    /\ TwoCallable(i)
    /\ \E user_msg \in Texts :
         TwoBecomes(i, on_user_speech_committed(SessionOf(i), user_msg),
                    "on_user_speech_committed", "n/a", user_msg)
    /\ ncalls' = ncalls + 1

TwoMoveToNextStage ==
  \E i \in 1..2 :
    /\ TwoCallable(i)
    /\ \E target_stage \in Targets :
         TwoBecomes(i, move_to_next_stage(SessionOf(i), target_stage),
                    "move_to_next_stage", target_stage, <<>>)
    /\ ncalls' = ncalls + 1

TwoCompleteCurrentStage ==
  \E i \in 1..2 :
    /\ TwoCallable(i)
    /\ \E next_stage_reason \in Texts :
         TwoBecomes(i, complete_current_stage(SessionOf(i), next_stage_reason),
                    "complete_current_stage", "n/a", next_stage_reason)
    /\ ncalls' = ncalls + 1

TwoEndConversation ==
  \E i \in 1..2 :
    /\ TwoCallable(i)
    /\ TwoBecomes(i, end_conversation(SessionOf(i)), "end_conversation", "n/a", <<>>)
    /\ ncalls' = ncalls + 1

NextTwo ==
  \/ TwoEntrypoint
  \/ TwoOnEnter
  \/ TwoOnUserSpeechCommitted
  \/ TwoMoveToNextStage
  \/ TwoCompleteCurrentStage
  \/ TwoEndConversation

SpecTwo == InitTwo /\ [][NextTwo]_vars

(***************************************************************************)
(* Definitions the properties below are stated with.                       *)
(***************************************************************************)

\* The session the last call left, with the exception it ended with.
Post == [Session EXCEPT !.exc = call.exc]

\* The stage ids of the transitions stage `id` declares.
DeclaredTargets(id) ==
  LET stage == DictGet(stages, id)
  IN IF "next_stages" \in DOMAIN stage
     THEN {stage.next_stages[i].stage_id : i \in 1..Len(stage.next_stages)}
     ELSE {}

\* The context_updates of stage `id`, none when it has no such field.
UpdatesOf(id) ==
  LET stage == DictGet(stages, id)
  IN IF "context_updates" \in DOMAIN stage THEN stage.context_updates ELSE <<>>

\* A dict as a mapping, its order forgotten.
AsMap(d) == [k \in DictKeys(d) |-> DictGet(d, k)]

\* Mapping m overridden by the items of dict u.
Overridden(m, u) ==
  [k \in DOMAIN m \cup DictKeys(u) |-> IF DictHas(u, k) THEN DictGet(u, k) ELSE m[k]]

\* The last call appended exactly entry e to the history.
AppendedOne(e) == conversation_history = Append(pre.conversation_history, e)

\* The last call completed a stage entry: it installed a stage descriptor.
EntryCompleted == call.exc = "none" /\ Len(chat_ctx) > Len(pre.chat_ctx)

(***************************************************************************)
(* C1.  A move_to_next_stage whose target is not "END" and is either no    *)
(* stage of the graph or a stage the current stage does not declare in its *)
(* next_stages leaves current_stage_id, context and history as they were   *)
(* and says nothing.                                                       *)
(***************************************************************************)
C1_RejectedTransitionChangesNothing ==
  (/\ call.op = "move_to_next_stage"
   /\ call.target # "END"
   /\ \/ ~DictHas(stages, call.target)
      \/ call.target \notin DeclaredTargets(pre.current_stage_id))
  => /\ current_stage_id = pre.current_stage_id
     /\ context = pre.context
     /\ conversation_history = pre.conversation_history
     /\ said = pre.said

\* Reached: from "greeting", after a user utterance, the LLM asks for
\* "completion", a stage of the graph that "greeting" does not declare.
C1_Witness ==
  /\ call.op = "move_to_next_stage"
  /\ call.target = "completion"
  /\ pre.current_stage_id = "greeting"
  /\ DictHas(stages, "completion")
  /\ "completion" \notin DeclaredTargets("greeting")
  /\ Len(pre.conversation_history) = 2

(***************************************************************************)
(* C2.  On a configuration the validator accepted, in every state after    *)
(* on_enter, whatever handlers have been called with whatever arguments,   *)
(* current_stage_id is a key of the stage map.                             *)
(***************************************************************************)
C2_CurrentStageIsAStage ==
  phase = "active" => DictHas(stages, current_stage_id)

\* Reached: end_conversation forced the session from "completion" into
\* "goodbye", which "completion" does not declare.
C2_Witness ==
  /\ phase = "active"
  /\ validate_config(config) = Ok
  /\ call.op = "end_conversation"
  /\ pre.current_stage_id = "completion"
  /\ current_stage_id = "goodbye"
  /\ ncalls = 3

(***************************************************************************)
(* C3.  _enter_stage called with a stage id that is not in the stage graph *)
(* leaves current_stage_id, context and history as they were.              *)
(***************************************************************************)
C3_UnknownStageLeavesStateUntouched ==
  (call.op = "_enter_stage" /\ ~DictHas(stages, call.target))
  => /\ current_stage_id = pre.current_stage_id
     /\ context = pre.context
     /\ conversation_history = pre.conversation_history

(***************************************************************************)
(* C4.  A move_to_next_stage that completes, to a target of the graph that *)
(* the current stage declares, sets current_stage_id to the target, makes  *)
(* the context the old context overridden by the target's context_updates, *)
(* and appends exactly one history entry, an assistant entry tagged with   *)
(* the target.                                                             *)
(***************************************************************************)
C4_DeclaredTransitionEntersTarget ==
  (/\ call.op = "move_to_next_stage"
   /\ call.exc = "none"
   /\ call.target # "END"
   /\ DictHas(stages, call.target)
   /\ call.target \in DeclaredTargets(pre.current_stage_id))
  => /\ current_stage_id = call.target
     /\ AsMap(context) = Overridden(AsMap(pre.context), UpdatesOf(call.target))
     /\ Len(conversation_history) = Len(pre.conversation_history) + 1
     /\ SubSeq(conversation_history, 1, Len(pre.conversation_history))
          = pre.conversation_history
     /\ conversation_history[Len(conversation_history)].role = "assistant"
     /\ conversation_history[Len(conversation_history)].stage_id = call.target

\* Reached: greeting -> billing, where billing's context_updates overwrite
\* key "k" (set by greeting) and add key "j".
C4_Witness ==
  /\ call.op = "move_to_next_stage"
  /\ call.exc = "none"
  /\ call.target = "billing"
  /\ pre.current_stage_id = "greeting"
  /\ AsMap(pre.context) = (KeyK :> StrVal(<<"u">>))
  /\ AsMap(context) = (KeyK :> StrVal(<<"w">>) @@ KeyJ :> IntVal(12))

(***************************************************************************)
(* C5.  Every completed entry of a stage appends exactly one history       *)
(* entry: role "assistant", tagged with the entered stage, its content the *)
(* stage's prompt (not its greeting) with the variables substituted from   *)
(* the context as it is after the stage's context_updates were merged.     *)
(***************************************************************************)
C5_EntryAppendsRenderedPrompt ==
  EntryCompleted
  => /\ AppendedOne(
          [role |-> "assistant",
           content |-> substitute_variables(DictGet(stages, current_stage_id).prompt,
                                            context),
           stage_id |-> current_stage_id])
     /\ AsMap(context) = Overridden(AsMap(pre.context), UpdatesOf(current_stage_id))

\* Reached: the entry of "billing", whose prompt "{{k}}owe{{j}}" is recorded
\* as "wowe12" (k and j as billing's context_updates set them) while the
\* greeting said is "pay".
C5_Witness ==
  /\ EntryCompleted
  /\ current_stage_id = "billing"
  /\ conversation_history[Len(conversation_history)].content
       = <<"w", "o", "w", "e", "1", "2">>
  /\ said[Len(said)] = <<"p", "a", "y">>

C7_NothingChangesAfterEnded ==
  (/\ pre.ended
   /\ call.op \in {"move_to_next_stage", "complete_current_stage",
                   "end_conversation", "on_user_speech_committed"})
  => /\ current_stage_id = pre.current_stage_id
     /\ context = pre.context
     /\ conversation_history = pre.conversation_history
     /\ chat_ctx = pre.chat_ctx

(***************************************************************************)
(* C9.  complete_current_stage(reason) has the effect of                   *)
(* move_to_next_stage(t) when _find_next_stage returns a target t for the  *)
(* reason at the current stage, and changes nothing when it returns None.  *)
(***************************************************************************)
C9_CompleteIsMoveToResolvedTarget ==
  call.op = "complete_current_stage"
  => LET t == find_next_stage(call.text, pre.current_stage_id, pre.context)
     IN Post = IF t # <<>> THEN move_to_next_stage(pre, t[1]) ELSE pre

(***************************************************************************)
(* C10.  When the current stage declares a transition to "completion",     *)
(* end_conversation enters "completion": current_stage_id becomes          *)
(* "completion", one assistant entry tagged "completion" is appended to    *)
(* the history, and the default farewell is not said.                      *)
(***************************************************************************)
C10_EndConversationEntersCompletion ==
  (/\ call.op = "end_conversation"
   /\ "completion" \in DeclaredTargets(pre.current_stage_id))
  => /\ current_stage_id = "completion"
     /\ Len(conversation_history) = Len(pre.conversation_history) + 1
     /\ SubSeq(conversation_history, 1, Len(pre.conversation_history))
          = pre.conversation_history
     /\ conversation_history[Len(conversation_history)].role = "assistant"
     /\ conversation_history[Len(conversation_history)].stage_id = "completion"
     /\ \A i \in (Len(pre.said) + 1)..Len(said) : said[i] # Farewell

\* The properties of _find_next_stage are stated with these.

\* text[a..b] is a token of text: a maximal run without whitespace.
IsToken(text, a, b) ==
  /\ a <= b
  /\ \A i \in a..b : text[i] \notin Whitespace
  /\ a = 1 \/ text[a - 1] \in Whitespace
  /\ b = Len(text) \/ text[b + 1] \in Whitespace

\* text[a..b] occurs in hay.
OccursIn(text, a, b, hay) ==
  \E o \in 0..(Len(hay) - (b - a + 1)) : \A j \in 0..(b - a) : hay[o + 1 + j] = text[a + j]

TransitionMatches(transition, input) ==
  \E a \in 1..Len(transition.condition) : \E b \in a..Len(transition.condition) :
    /\ IsToken(Lower(transition.condition), a, b)
    /\ OccursIn(Lower(transition.condition), a, b, Lower(input))

PriorityOrFifty(transition) ==
  IF "priority" \in DOMAIN transition THEN transition.priority ELSE 50

(***************************************************************************)
(* C8.  _find_next_stage returns the target of the matching transition of  *)
(* highest priority, the earliest declared among those of equal priority;  *)
(* a transition matches when a whitespace-separated token of its           *)
(* lower-cased condition is a substring of the lower-cased input; a        *)
(* missing priority counts as 50; it returns None when nothing matches or  *)
(* the stage has no next_stages.                                           *)
(***************************************************************************)

C8_ResolverPicksHighestPriorityMatch ==
  call.op = "_find_next_stage"
  => LET stage == DictGet(stages, current_stage_id)
         declared == IF "next_stages" \in DOMAIN stage THEN stage.next_stages ELSE <<>>
         matching == {i \in 1..Len(declared) : TransitionMatches(declared[i], fn_in[1])}
     IN IF matching = {} THEN fn_out = <<>>
        ELSE \E i \in matching :
               /\ \A j \in matching :
                    \/ PriorityOrFifty(declared[j]) < PriorityOrFifty(declared[i])
                    \/ PriorityOrFifty(declared[j]) = PriorityOrFifty(declared[i]) /\ i <= j
               /\ fn_out = <<declared[i].stage_id>>

\* Reached: two matching transitions, the first with priority 10, the second
\* with none; the input "Ab" holds the token "ab" of the first and the token
\* "b" of the upper-case condition "a B" of the second, which is returned.
C8_Witness ==
  /\ call.op = "_find_next_stage"
  /\ "next_stages" \in DOMAIN DictGet(stages, "s")
  /\ DictGet(stages, "s").next_stages
       = <<Transition("x", <<"A", "b">>, 10),
           TransitionNoPriority("y", <<"a", " ", "B">>)>>
  /\ fn_in = <<<<"A", "b">>>>
  /\ fn_out = <<"y">>

(***************************************************************************)
(* The ending, the caller's view of a rejection, the user's utterances,    *)
(* and what every operation keeps.                                         *)
(***************************************************************************)

\* The stage end_conversation is to enter from stage `id`, by the order
\* "completion" declared, "goodbye" declared, "goodbye" in the graph; <<>>
\* when it is to enter none.
EndingStage(id) ==
  IF "completion" \in DeclaredTargets(id) THEN <<"completion">>
  ELSE IF "goodbye" \in DeclaredTargets(id) THEN <<"goodbye">>
  ELSE IF DictHas(stages, "goodbye") THEN <<"goodbye">>
  ELSE <<>>

\* The priority stage `id` gives to its first transition to `target`.
DeclaredPriority(id, target) ==
  LET ns == DictGet(stages, id).next_stages
  IN PriorityOrFifty(ns[CHOOSE i \in 1..Len(ns) : ns[i].stage_id = target])

\* Sequence a is a prefix of sequence b.
IsPrefix(a, b) == Len(a) <= Len(b) /\ SubSeq(b, 1, Len(a)) = a

(***************************************************************************)
(* C11.  end_conversation takes the first branch that applies, whatever    *)
(* the priorities of the transitions: "completion" when the current stage  *)
(* declares it, else "goodbye" when the current stage declares it, else    *)
(* "goodbye" when the graph has such a stage (entered without its being    *)
(* declared), else the closing message.  In the first three branches its   *)
(* effect is that of one entry of that stage, and the closing message is   *)
(* not said; in the last no stage is entered.                              *)
(***************************************************************************)
C11_EndConversationBranchOrder ==
  call.op = "end_conversation"
  => LET x == EndingStage(pre.current_stage_id)
     IN IF x = <<>>
        THEN /\ said = Append(pre.said, Farewell)
             /\ current_stage_id = pre.current_stage_id
             /\ conversation_history = pre.conversation_history
             /\ chat_ctx = pre.chat_ctx
        ELSE /\ Post = enter_stage(pre, x[1])
             /\ current_stage_id = x[1]
             /\ Len(conversation_history) <= Len(pre.conversation_history) + 1
             /\ Len(said) <= Len(pre.said) + 1
             /\ \A i \in (Len(pre.said) + 1)..Len(said) : said[i] # Farewell

\* Reached: "menu" declares "goodbye" with priority 90 and "completion" with
\* priority 10, and end_conversation enters "completion".
C11_Witness ==
  /\ call.op = "end_conversation"
  /\ pre.current_stage_id = "menu"
  /\ DeclaredPriority("menu", "goodbye") > DeclaredPriority("menu", "completion")
  /\ current_stage_id = "completion"
  /\ EntryCompleted

C13_RejectionIsAnErrorOutcome ==
  (/\ call.op = "move_to_next_stage"
   /\ call.target # "END"
   /\ \/ ~DictHas(stages, call.target)
      \/ call.target \notin DeclaredTargets(pre.current_stage_id))
  => /\ current_stage_id = pre.current_stage_id
     /\ chat_ctx = pre.chat_ctx
     /\ \A t \in DeclaredTargets(pre.current_stage_id) \ {"END"} :
          move_to_next_stage(pre, t).exc = "none"
          => <<call.exc, move_to_next_stage_returns(pre, call.target)>>
               # <<move_to_next_stage(pre, t).exc, move_to_next_stage_returns(pre, t)>>

(***************************************************************************)
(* C17.  on_user_speech_committed(text) raises nothing and appends exactly *)
(* one history entry, with role "user", content text and the current stage *)
(* id; current stage, context, chat context and speech are as they were,   *)
(* also for a text that matches the condition of a declared transition.    *)
(***************************************************************************)
C17_UtteranceIsRecordedOnly ==
  call.op = "on_user_speech_committed"
  => /\ call.exc = "none"
     /\ AppendedOne([role |-> "user", content |-> call.text,
                     stage_id |-> pre.current_stage_id])
     /\ current_stage_id = pre.current_stage_id
     /\ context = pre.context
     /\ chat_ctx = pre.chat_ctx
     /\ said = pre.said

\* Reached: in "greeting" the user says "I need to pay my Bill", which the
\* resolver maps to "billing"; the session stays in "greeting".
C17_Witness ==
  /\ call.op = "on_user_speech_committed"
  /\ call.text = PayMyBill
  /\ pre.current_stage_id = "greeting"
  /\ find_next_stage(PayMyBill, "greeting", pre.context) = <<"billing">>
  /\ current_stage_id = "greeting"

(***************************************************************************)
(* C18.  The history is append-only: in every step of every operation,     *)
(* _enter_stage called directly included, the history before the step is a *)
(* prefix of the history after it.                                         *)
(***************************************************************************)
C18_HistoryIsAppendOnly ==
  [][IsPrefix(conversation_history, conversation_history')]_vars

\* Reached: a history of an assistant entry, a user entry and an assistant
\* entry, the last appended by the last call to the two before it.
C18_Witness ==
  /\ Len(conversation_history) = 3
  /\ Len(pre.conversation_history) = 2
  /\ IsPrefix(pre.conversation_history, conversation_history)
  /\ conversation_history[2].role = "user"
  /\ conversation_history[3].role = "assistant"

(***************************************************************************)
(* C19.  The context accumulates: in every step of every operation no      *)
(* context key is lost, and the value of a key changes only in a step that *)
(* enters a stage whose context_updates has the key, the new value being   *)
(* the one of context_updates.                                             *)
(***************************************************************************)
C19_ContextAccumulates ==
  [][/\ DictKeys(context) \subseteq DictKeys(context')
     /\ \A k \in DictKeys(context) :
          DictGet(context', k) # DictGet(context, k)
          => /\ DictHas(stages, current_stage_id')
             /\ DictHas(UpdatesOf(current_stage_id'), k)
             /\ DictGet(context', k) = DictGet(UpdatesOf(current_stage_id'), k)]_vars

\* Reached: the entry of "goodbye" from "menu", which adds key "j" and keeps
\* key "k" with the value "menu" gave it.
C19_Witness ==
  /\ call.op \in {"move_to_next_stage", "complete_current_stage"}
  /\ pre.current_stage_id = "menu"
  /\ current_stage_id = "goodbye"
  /\ AsMap(pre.context) = (KeyK :> IntVal(3))
  /\ AsMap(context) = (KeyK :> IntVal(3) @@ KeyJ :> StrVal(<<"g">>))

(***************************************************************************)
(* C20.  When on_enter has completed, current_stage_id is flow.start_stage,*)
(* the context is the initial context overridden by the start stage's      *)
(* context_updates, and the history is the history before plus exactly one *)
(* entry, an assistant entry tagged with the start stage.                  *)
(***************************************************************************)
C20_OnEnterEntersStartStage ==
  (call.op = "on_enter" /\ call.exc = "none")
  => /\ current_stage_id = config.flow.start_stage
     /\ AsMap(context)
          = Overridden(AsMap(pre.context), UpdatesOf(config.flow.start_stage))
     /\ Len(conversation_history) = Len(pre.conversation_history) + 1
     /\ IsPrefix(pre.conversation_history, conversation_history)
     /\ conversation_history[Len(conversation_history)].role = "assistant"
     /\ conversation_history[Len(conversation_history)].stage_id
          = config.flow.start_stage

\* Reached: a start stage "menu" that is the second stage of the map, with
\* its context_updates k = 3 merged.
C20_Witness ==
  /\ call.op = "on_enter"
  /\ call.exc = "none"
  /\ config.flow.start_stage = "menu"
  /\ stages[1].key # "menu"
  /\ current_stage_id = "menu"
  /\ AsMap(context) = (KeyK :> IntVal(3))
  /\ Len(conversation_history) = 1

(***************************************************************************)
(* The handlers as coroutines.                                             *)
(***************************************************************************)

\* The stage context descriptor in a chat context that _update_stage_context
\* built: the system message, followed by the assistant message.
DescriptorOf(built) == built[Len(built) - 1]

(***************************************************************************)
(* C14.  The operations of one session run one at a time: no handler       *)
(* (on_user_speech_committed, move_to_next_stage, complete_current_stage,  *)
(* end_conversation) is started while a stage entry of the session is      *)
(* suspended at its greeting emission or at the installation of its        *)
(* descriptor.                                                             *)
(***************************************************************************)
C14_OneOperationAtATime == ~overlapped

(***************************************************************************)
(* C15.  When the greeting emission of a stage entry is cancelled or       *)
(* fails, and no other operation ran meanwhile, current_stage_id, context  *)
(* and history are as the handler that made the entry found them.          *)
(***************************************************************************)
C15_CancelledGreetingLeavesNoTrace ==
  (call.exc = "CancelledError" /\ ~overlapped)
  => /\ current_stage_id = pre.current_stage_id
     /\ context = pre.context
     /\ conversation_history = pre.conversation_history

(***************************************************************************)
(* C16.  The descriptor a stage entry hands to update_chat_ctx carries a   *)
(* context snapshot that is the context its prompt was substituted with    *)
(* and that has every item of the entered stage's context_updates, also    *)
(* when another operation ran while the entry was suspended at the         *)
(* greeting emission.                                                      *)
(***************************************************************************)
C16_DescriptorCarriesRenderingContext ==
  \A i \in 1..Len(inflight) :
    inflight[i].at = "update_chat_ctx"
    => LET descriptor == DescriptorOf(inflight[i].chat_ctx)
           updates == UpdatesOf(inflight[i].stage_id)
       IN /\ descriptor.prompt = inflight[i].prompt
          /\ descriptor.context = inflight[i].rendered_with
          /\ \A k \in DictKeys(updates) :
               /\ DictHas(descriptor.context, k)
               /\ DictGet(descriptor.context, k) = DictGet(updates, k)

(***************************************************************************)
(* The validator's contract, stated on the document.                       *)
(***************************************************************************)

RequiredSubFields ==
  [llm_settings |-> {"provider", "model", "temperature"},
   stt_settings |-> {"provider", "model", "language"},
   tts_settings |-> {"provider", "model", "voice"}]

\* A violation: the names either of which identifies it, and the key of the
\* stage it is in (<<>> outside the stages).
Violation(names, stage) == [names |-> names, stage |-> stage]

\* The violations of the top-level rule ...
TopLevelViolations(cfg) ==
  {Violation({k}, <<>>) : k \in {"global_settings", "agent_config", "flow"} \ DOMAIN cfg}

\* ... of the global_settings rule (for a document with the top-level keys) ...
GlobalSettingsViolations(cfg) ==
  {Violation({s}, <<>>) : s \in DOMAIN RequiredSubFields \ DOMAIN cfg.global_settings}
  \cup UNION {{Violation({f}, <<>>) :
                 f \in RequiredSubFields[s] \ DOMAIN cfg.global_settings[s]} :
              s \in DOMAIN RequiredSubFields \cap DOMAIN cfg.global_settings}

\* ... of the agent_config rule ...
AgentConfigViolations(cfg) ==
  {Violation({k}, <<>>) : k \in {"name", "base_instructions"} \ DOMAIN cfg.agent_config}

\* ... of the flow rule ...
FlowViolations(cfg) ==
  {Violation({k}, <<>>) : k \in {"start_stage", "stages"} \ DOMAIN cfg.flow}
  \cup (IF /\ {"start_stage", "stages"} \subseteq DOMAIN cfg.flow
           /\ ~DictHas(cfg.flow.stages, cfg.flow.start_stage)
        THEN {Violation({"start_stage"}, <<>>)} ELSE {})

\* ... and of the stage rule (for a document with flow.stages): a missing
\* stage field, a missing transition field, a target that is neither "END"
\* nor a stage.
TransitionViolations(key, next_stages, all_stages) ==
  UNION {
    {Violation({f}, <<key>>) : f \in {"stage_id", "condition"} \ DOMAIN next_stages[j]}
    \cup (IF /\ "stage_id" \in DOMAIN next_stages[j]
             /\ next_stages[j].stage_id # "END"
             /\ ~DictHas(all_stages, next_stages[j].stage_id)
          THEN {Violation({"stage_id", next_stages[j].stage_id}, <<key>>)} ELSE {}) :
    j \in 1..Len(next_stages)}

StageViolations(cfg) ==
  UNION {
    LET key == cfg.flow.stages[i].key
        stage == cfg.flow.stages[i].val
    IN {Violation({f}, <<key>>) :
          f \in {"id", "name", "prompt", "completion_criteria"} \ DOMAIN stage}
       \cup (IF "next_stages" \in DOMAIN stage
             THEN TransitionViolations(key, stage.next_stages, cfg.flow.stages)
             ELSE {}) :
    i \in 1..Len(cfg.flow.stages)}

\* The violations of the first rule, in the order of the rules, that the
\* document violates; {} for a document that violates none.
FirstViolations(cfg) ==
  IF TopLevelViolations(cfg) # {} THEN TopLevelViolations(cfg)
  ELSE IF GlobalSettingsViolations(cfg) # {} THEN GlobalSettingsViolations(cfg)
  ELSE IF AgentConfigViolations(cfg) # {} THEN AgentConfigViolations(cfg)
  ELSE IF FlowViolations(cfg) # {} THEN FlowViolations(cfg)
  ELSE StageViolations(cfg)

\* Every required field is present and every reference resolves.
StructurallyComplete(cfg) == FirstViolations(cfg) = {}

\* fn_out is the outcome of a validation.
Validated == fn_out # <<>>

\* C21: the validator rejects every configuration that lacks a required
\* field (a top-level section, a provider sub-field, the agent's name or
\* base_instructions, start_stage or stages, a start_stage that is a stage,
\* a stage's id, name, prompt or completion_criteria, a transition's stage_id
\* or condition, a target that is "END" or a stage), and accepts every
\* configuration in which all of them are present.
C21_ValidatorAcceptsExactlyTheComplete ==
  Validated => (fn_out = Ok <=> StructurallyComplete(config))

\* A rejected document with two defects, neither in the first rule: no voice
\* in tts_settings and no condition in a transition.
C21_Witness ==
  /\ Validated
  /\ fn_out # Ok
  /\ "global_settings" \in DOMAIN config
  /\ "tts_settings" \in DOMAIN config.global_settings
  /\ "voice" \notin DOMAIN config.global_settings.tts_settings
  /\ HasTransition(config, 1, 1)
  /\ "condition" \notin DOMAIN config.flow.stages[1].val.next_stages[1]

\* The message of the outcome contains the name x.
Named(x) == \E i \in 2..Len(fn_out) : fn_out[i] = x

\* C22: every validation failure identifies the violation: the error names
\* the missing or invalid field and, for a violation inside a stage, the id
\* of that stage; of several violations the one reported belongs to the
\* first rule, in the order of the rules, that the document violates.
C22_ErrorNamesFieldAndStage ==
  (Validated /\ fn_out # Ok) =>
    \E v \in FirstViolations(config) :
      /\ \E n \in v.names : Named(n)
      /\ v.stage # <<>> => Named(v.stage[1])

\* A session exists: the entrypoint has passed its checks (session.start).
SessionStarted == phase \in {"ready", "active"}

\* start_stage and every transition target other than "END" is a stage.
ReferencesResolve(cfg) ==
  /\ DictHas(cfg.flow.stages, cfg.flow.start_stage)
  /\ \A i \in 1..Len(cfg.flow.stages) :
       "next_stages" \in DOMAIN cfg.flow.stages[i].val =>
         \A j \in 1..Len(cfg.flow.stages[i].val.next_stages) :
           \/ cfg.flow.stages[i].val.next_stages[j].stage_id = "END"
           \/ DictHas(cfg.flow.stages, cfg.flow.stages[i].val.next_stages[j].stage_id)

\* C23: in every configuration the validator accepts, start_stage is a key
\* of the stage map and so is every next_stages target other than "END"; no
\* session is started on a configuration with a dangling stage reference.
C23_AcceptedReferencesResolve ==
  /\ (Validated /\ fn_out = Ok) => ReferencesResolve(config)
  /\ SessionStarted => ReferencesResolve(config)

\* A session started on a document that has lost optional fields and keeps
\* its transitions to a stage and to END.
C23_Witness ==
  /\ SessionStarted
  /\ Validated
  /\ "description" \notin DOMAIN config.flow.stages[2].val
  /\ HasTransition(config, 1, 2)
  /\ config.flow.stages[1].val.next_stages[1].stage_id = "s2"
  /\ config.flow.stages[1].val.next_stages[2].stage_id = "END"

(***************************************************************************)
(* Substitution, stated on the text.                                       *)
(***************************************************************************)

\* The indices of the context items whose marker the text begins with.
MarkersAt(text, ctx) ==
  {i \in 1..Len(ctx) :
     /\ Len(Marker(ctx[i].key)) <= Len(text)
     /\ SubSeq(text, 1, Len(Marker(ctx[i].key))) = Marker(ctx[i].key)}

\* The text with every occurrence of a marker of a context key, read from
\* the left, replaced by the textual form of the key's value, and everything
\* else as it is.
RECURSIVE Substituted(_, _)
Substituted(text, ctx) ==
  IF text = <<>> THEN <<>>
  ELSE IF MarkersAt(text, ctx) # {}
  THEN LET i == CHOOSE i \in MarkersAt(text, ctx) : TRUE
       IN PyStr(ctx[i].val)
          \o Substituted(SubSeq(text, Len(Marker(ctx[i].key)) + 1, Len(text)), ctx)
  ELSE <<Head(text)>> \o Substituted(Tail(text), ctx)

\* C24: for every text and context, _substitute_variables replaces every
\* literal occurrence of {{key}}, for each key of the context, by the textual
\* form of the key's value, leaves every marker of an absent key and all
\* other text verbatim, raises no error and does not modify the context.
C24_SubstitutionReplacesMarkersOnly ==
  call.op = "_substitute_variables" =>
    /\ \A i \in 1..Len(fn_out) : fn_out[i] = Substituted(fn_in[i], context)
    /\ call.exc = "none"
    /\ context = pre.context

Braces == {"{", "}"}

\* No value's textual form contains the marker of another key.
NoValueContainsAnotherMarker(ctx) ==
  \A i \in 1..Len(ctx) : \A j \in 1..Len(ctx) :
    i # j => ~StrIn(Marker(ctx[j].key), PyStr(ctx[i].val))

\* No value's textual form contains a brace.
ValuesBraceFree(ctx) ==
  \A i \in 1..Len(ctx) : \A n \in 1..Len(PyStr(ctx[i].val)) :
    PyStr(ctx[i].val)[n] \notin Braces

\* The position of the first "}}" of the text that only brace-free
\* characters precede; 0 when there is none.
RECURSIVE ClosingAt(_, _)
ClosingAt(text, n) ==
  IF n + 1 > Len(text) THEN 0
  ELSE IF text[n] = "}" /\ text[n + 1] = "}" THEN n
  ELSE IF text[n] \in Braces THEN 0
  ELSE ClosingAt(text, n + 1)

\* Every brace of the text belongs to a marker {{name}} with a brace-free
\* name.
RECURSIVE WellFormedTemplate(_)
WellFormedTemplate(text) ==
  IF text = <<>> THEN TRUE
  ELSE IF Head(text) \notin Braces THEN WellFormedTemplate(Tail(text))
  ELSE /\ Len(text) >= 4
       /\ text[1] = "{" /\ text[2] = "{"
       /\ ClosingAt(text, 3) # 0
       /\ WellFormedTemplate(SubSeq(text, ClosingAt(text, 3) + 2, Len(text)))

\* The method has been called on its own result.
SubstitutedTwice == call.op = "_substitute_variables" /\ Len(fn_out) = 2

StateOf(i) ==
  IF sessions[i].userdata = 0 THEN <<>>
  ELSE <<SessionOf(i).current_stage_id, SessionOf(i).context,
         SessionOf(i).conversation_history>>

\* C26: two sessions running concurrently share no mutable state: no
\* operation performed on one session changes the current_stage_id, the
\* context or the history of the other, in any interleaving of their
\* operations.
C26_SessionsShareNoState ==
  [][\A i \in 1..2 : call'.session # i => StateOf(i)' = StateOf(i)]_vars

\* Session 2 has just entered a stage that adds to its context, while
\* session 1 is in another stage with a history and a context of its own.
C26_Witness ==
  /\ sessions[1].phase = "active"
  /\ sessions[2].phase = "active"
  /\ call.op = "move_to_next_stage"
  /\ call.session = 2
  /\ call.exc = "none"
  /\ SessionOf(2).current_stage_id # pre.current_stage_id
  /\ SessionOf(2).context # pre.context
  /\ SessionOf(1).current_stage_id # SessionOf(2).current_stage_id
  /\ SessionOf(1).context # SessionOf(2).context
  /\ Len(SessionOf(1).conversation_history) >= 2

(***************************************************************************)
(* The stage graph and the session.                                        *)
(***************************************************************************)

Handlers ==
  {"on_user_speech_committed", "move_to_next_stage", "complete_current_stage",
   "end_conversation"}

\* C27: in every run, each change of current_stage_id from a stage s to a
\* different stage t made by move_to_next_stage or complete_current_stage
\* follows an edge declared in s's next_stages; the only operation that moves
\* the session along an undeclared edge is end_conversation, by its forced
\* entry into "goodbye".
C27_MovesFollowDeclaredEdges ==
  [][(call'.op \in Handlers /\ current_stage_id' # current_stage_id) =>
       \/ current_stage_id' \in DeclaredTargets(current_stage_id)
       \/ call'.op = "end_conversation" /\ current_stage_id' = "goodbye"]_vars

\* complete_current_stage has moved the session along a declared edge, in a
\* graph that has a stage the left stage does not declare.
C27_Witness ==
  /\ call.op = "complete_current_stage"
  /\ call.exc = "none"
  /\ current_stage_id # pre.current_stage_id
  /\ current_stage_id \in DeclaredTargets(pre.current_stage_id)
  /\ DictKeys(stages) \ DeclaredTargets(pre.current_stage_id) # {pre.current_stage_id}
  /\ DictKeys(stages) \ DeclaredTargets(pre.current_stage_id) # {}

\* C28: in every configuration loaded into a session each stage's id field
\* equals the key the stage is stored under, so that the stage id shown in
\* the stage descriptor equals current_stage_id and the stage id of the
\* history entry of the same entry.
C28_DescriptorShowsCurrentStage ==
  EntryCompleted =>
    /\ DictGet(stages, current_stage_id).id = current_stage_id
    /\ DescriptorOf(chat_ctx).stage_id = current_stage_id
    /\ DescriptorOf(chat_ctx).stage_id =
         conversation_history[Len(conversation_history)].stage_id

\* C29: in every configuration the validator accepts, entering any stage
\* runs to completion: no entry stops part-way for want of a stage field it
\* reads (greeting, description, name, completion_criteria, prompt, id), and
\* the session is never left with current_stage_id and context updated but
\* without the history entry and the descriptor of the stage.
C29_EntryRunsToCompletion ==
  (call.op \in Handlers \cup {"on_enter"}) =>
    /\ call.exc # "KeyError"
    /\ current_stage_id # pre.current_stage_id =>
         /\ Len(conversation_history) = Len(pre.conversation_history) + 1
         /\ conversation_history[Len(conversation_history)].stage_id = current_stage_id
         /\ Len(chat_ctx) > Len(pre.chat_ctx)

\* history[i] is a user entry that no assistant entry with its stage tag
\* precedes.
Unattributed(history, i) ==
  /\ history[i].role = "user"
  /\ ~\E j \in 1..(i - 1) :
        history[j].role = "assistant" /\ history[j].stage_id = history[i].stage_id

\* C30: in every reachable history each user entry tagged with stage s is
\* preceded by an assistant entry tagged with s, also when
\* on_user_speech_committed runs while a stage entry is suspended at its
\* greeting emission: the entry it then appends is attributed to a stage
\* whose entry is recorded.
C30_UtteranceFollowsItsStageEntry ==
  (/\ call.op = "on_user_speech_committed"
   /\ \E t \in 1..Len(inflight) : inflight[t].at = "say")
    => ~Unattributed(conversation_history, Len(conversation_history))

====
